---------------------------- MODULE Spec2Model ----------------------------
(***************************************************************************)
(* Model of the CBOR codec of mkit (src/src/cbor.rs): the value model      *)
(* (Cbor, Info, SimpleValue, Tag, Key), the header / additional-value      *)
(* codec, the recursive encode / decode engine and the Key ordering.       *)
(*                                                                         *)
(* Representation.                                                         *)
(*   u8            a number in 0..255                                      *)
(*   u64           a tuple of 8 bytes, big-endian (TLC's integers are 32   *)
(*                 bits wide, so a 64-bit magnitude is kept as its bytes)  *)
(*   i64           [neg |-> BOOLEAN, mag |-> u64], the value -mag or +mag  *)
(*   f32 / f64     the 4 / 8 bytes of the bit pattern, big-endian          *)
(*   Vec<u8>       a sequence of bytes; String: its UTF-8 bytes            *)
(*   Info          [t |-> "Tiny" | "U8" | ..., val |-> n]  (n = 0 unless   *)
(*                 t = "Tiny")                                             *)
(*   Cbor          [info |-> Info, major |-> 0..7, val |-> payload], and   *)
(*                 [major |-> 8, val |-> bytes] for Cbor::Binary           *)
(*   Result<T>     a record with a field st: "Ok", or the Error variant    *)
(*                 ("IOError", "FailCbor", "FailConvert", "Fatal"), or     *)
(*                 "Panic" when the call unwinds                           *)
(***************************************************************************)
EXTENDS Integers, Sequences, FiniteSets, TLC

\* The fields of the model's records, the discriminating ones first: TLC
\* compares two records field by field in the order in which the names first
\* occur in the module, so that a payload is compared only between records of
\* the same variant.
FieldOrder ==
    [st |-> 0, t |-> 0, ty |-> 0, kind |-> 0, neg |-> 0, info |-> 0, major |-> 0, elem |-> 0,
     val |-> 0]

VARIABLES
    pc,      \* position of the driver: which call has been made
    build,   \* "debug" (overflow checks on) or "release" (wrapping)
    val,     \* the Cbor value handed to encode
    wr,      \* the writer handed to encode
    encRes,  \* what encode returned
    src,     \* how the bytes handed to decode were put together
    rd,      \* the bytes of the reader handed to decode
    decRes,  \* what decode returned
    keys,    \* the keys handed to the Key comparison
    cmpRes,  \* the comparisons' results
    chain,   \* the nesting chain walked by the depth walker
    wk,      \* the walker's frame: depth argument, level, outcome
    nat,     \* the native value handed to into_cbor
    conv,    \* what into_cbor returned
    back,    \* what from_cbor (or into_bytes) returned for that value
    decl,    \* the type a from_cbor was derived for
    msg,     \* the Cbor value handed to the derived from_cbor
    made,    \* what the derived from_cbor returned
    one,     \* a db::Entry
    two,     \* a db::Entry that one is merged with
    ops1,    \* the versions given to new / insert / delete on one, in order
    ops2,    \* the versions given to new / insert / delete on two, in order
    merged,  \* what one.merge(&two) returned
    cutoff,  \* the Cutoff handed to one.purge
    purged,  \* what one.purge(cutoff) returned
    chn,     \* the channel Thread::new or new_sync made: its kind and size
    srv,     \* the spawned main loop: where it is, what it handles
    mq,      \* the messages in the channel, oldest first
    txs,     \* who holds a Tx of the channel: 0 (the Thread) and clients
    cls,     \* each client: where it is in post / request, what it got
    rch,     \* each client's reply channel: buffer, live sender, history
    own      \* the holder of the Thread: holding, in close_wait, returned

\* The state of the codec, Key and depth drivers, that of the conversion
\* driver, of the derive driver, of the db driver and of the thread driver.
codec == <<val, wr, encRes, src, rd, decRes, keys, cmpRes, chain, wk>>
convs == <<nat, conv, back>>
derived == <<decl, msg, made>>
dbs == <<one, two, ops1, ops2, merged, cutoff, purged>>
ths == <<chn, srv, mq, txs, cls, rch, own>>
ext == <<convs, derived, dbs, ths>>

vars == <<pc, build, codec, convs, derived, dbs, ths>>

-----------------------------------------------------------------------------
(* Bytes and 64-bit unsigned numbers.                                      *)

Byte == 0..255

Min(a, b) == IF a < b THEN a ELSE b

\* n copies of the byte b.
Fill(b, n) == [i \in 1..n |-> b]

\* The u64 of a small number (below 2^31).
U64(n) == <<0, 0, 0, 0, n \div 16777216, (n \div 65536) % 256, (n \div 256) % 256, n % 256>>

U64_MAX == Fill(255, 8)
I64_MAX == <<127>> \o Fill(255, 7)
I64_MIN_MAG == <<128>> \o Fill(0, 7)

\* Lexicographic comparison of two byte sequences: -1, 0 or 1.
RECURSIVE BytesCmp(_, _)
BytesCmp(a, b) ==
    IF a = <<>> /\ b = <<>> THEN 0
    ELSE IF a = <<>> THEN -1
    ELSE IF b = <<>> THEN 1
    ELSE IF Head(a) < Head(b) THEN -1
    ELSE IF Head(a) > Head(b) THEN 1
    ELSE BytesCmp(Tail(a), Tail(b))

\* a <= b on u64.
U64Le(a, b) == BytesCmp(a, b) <= 0

\* The bytes of a big-endian number zero-extended to 8 bytes.
ZeroExtend(bs) == Fill(0, 8 - Len(bs)) \o bs

\* x + 1 on big-endian bytes, wrapping at the width of x.
RECURSIVE WrappingInc(_)
WrappingInc(x) ==
    IF x = <<>> THEN <<>>
    ELSE LET k == Len(x) IN
         IF x[k] < 255 THEN SubSeq(x, 1, k - 1) \o <<x[k] + 1>>
         ELSE WrappingInc(SubSeq(x, 1, k - 1)) \o <<0>>

\* x - 1 on big-endian bytes, wrapping at the width of x.
RECURSIVE WrappingDec(_)
WrappingDec(x) ==
    IF x = <<>> THEN <<>>
    ELSE LET k == Len(x) IN
         IF x[k] > 0 THEN SubSeq(x, 1, k - 1) \o <<x[k] - 1>>
         ELSE WrappingDec(SubSeq(x, 1, k - 1)) \o <<255>>

\* The number held by a u64 when it is at most cap, else cap + 1: the count
\* of a loop or a buffer that a stream of cap bytes cannot fill.
ToNatCapped(x, cap) ==
    IF SubSeq(x, 1, 5) # Fill(0, 5) THEN cap + 1
    ELSE Min(x[6] * 65536 + x[7] * 256 + x[8], cap + 1)

-----------------------------------------------------------------------------
(* Results.                                                                *)

IsOk(r) == r.st = "Ok"

\* Overflow checks are a property of the build: an overflowing +, - or abs
\* panics with them and wraps without.
OverflowPanics == build = "debug"

-----------------------------------------------------------------------------
(* io::Write and io::Read as the codec uses them.                          *)

\* A Vec<u8> writer (grows, takes every byte), a &mut [u8] writer of cap
\* bytes (takes what fits and reports the shorter count as Ok), and a writer
\* that fails once cap bytes are exceeded.
VecWriter == [kind |-> "vec", cap |-> 0, buf |-> <<>>]
SliceWriter(cap) == [kind |-> "slice", cap |-> cap, buf |-> <<>>]
FailingWriter(cap) == [kind |-> "failing", cap |-> cap, buf |-> <<>>]

\* w.write(buf): the io::Result<usize> and the writer afterwards.
Write(w, buf) ==
    CASE w.kind = "vec" ->
            [st |-> "Ok", n |-> Len(buf), w |-> [w EXCEPT !.buf = @ \o buf]]
      [] w.kind = "slice" ->
            LET k == Min(Len(buf), w.cap - Len(w.buf)) IN
            [st |-> "Ok", n |-> k, w |-> [w EXCEPT !.buf = @ \o SubSeq(buf, 1, k)]]
      [] OTHER ->
            IF Len(w.buf) + Len(buf) > w.cap
            THEN [st |-> "Err", n |-> 0, w |-> w]
            ELSE [st |-> "Ok", n |-> Len(buf), w |-> [w EXCEPT !.buf = @ \o buf]]

\* write_w!(w, buf): err_at!(IOError, w.write(buf))?  The count that write
\* returns is dropped.
write_w(w, buf) ==
    LET r == Write(w, buf) IN
    [st |-> IF r.st = "Ok" THEN "Ok" ELSE "IOError", w |-> r.w]

\* read_r!(r, buf) on a &[u8] reader at position pos (bytes consumed so
\* far), for a buffer of k bytes: read_exact fails on a short read.
read_r(s, pos, k) ==
    IF pos + k > Len(s)
    THEN [st |-> "IOError", bytes |-> <<>>, pos |-> Len(s)]
    ELSE [st |-> "Ok", bytes |-> SubSeq(s, pos + 1, pos + k), pos |-> pos + k]

-----------------------------------------------------------------------------
(* Info: the 5-bit additional info.                                        *)

RECURSION_LIMIT == 1000

Tiny(n) == [t |-> "Tiny", val |-> n]
InfoU8 == [t |-> "U8", val |-> 0]
InfoU16 == [t |-> "U16", val |-> 0]
InfoU32 == [t |-> "U32", val |-> 0]
InfoU64 == [t |-> "U64", val |-> 0]
Reserved28 == [t |-> "Reserved28", val |-> 0]
Reserved29 == [t |-> "Reserved29", val |-> 0]
Reserved30 == [t |-> "Reserved30", val |-> 0]
Indefinite == [t |-> "Indefinite", val |-> 0]

\* impl TryFrom<u8> for Info.
Info_try_from_u8(b) ==
    CASE b \in 0..23 -> [st |-> "Ok", val |-> Tiny(b)]
      [] b = 24 -> [st |-> "Ok", val |-> InfoU8]
      [] b = 25 -> [st |-> "Ok", val |-> InfoU16]
      [] b = 26 -> [st |-> "Ok", val |-> InfoU32]
      [] b = 27 -> [st |-> "Ok", val |-> InfoU64]
      [] b = 28 -> [st |-> "Ok", val |-> Reserved28]
      [] b = 29 -> [st |-> "Ok", val |-> Reserved29]
      [] b = 30 -> [st |-> "Ok", val |-> Reserved30]
      [] b = 31 -> [st |-> "Ok", val |-> Indefinite]
      [] OTHER -> [st |-> "Fatal", val |-> Tiny(0)]

\* A mutant of Info_from_u64: the one-byte class stops below u8::MAX.
Info_from_u64_Mut(num) ==
    IF U64Le(num, U64(23)) THEN Tiny(num[8])
    ELSE IF U64Le(num, U64(254)) THEN InfoU8
    ELSE IF U64Le(num, U64(65535)) THEN InfoU16
    ELSE IF U64Le(num, ZeroExtend(Fill(255, 4))) THEN InfoU32
    ELSE InfoU64

\* impl From<u64> for Info.
Info_from_u64(num) ==
    IF U64Le(num, U64(23)) THEN Tiny(num[8])
    ELSE IF U64Le(num, U64(255)) THEN InfoU8
    ELSE IF U64Le(num, U64(65535)) THEN InfoU16
    ELSE IF U64Le(num, ZeroExtend(Fill(255, 4))) THEN InfoU32
    ELSE InfoU64

\* impl TryFrom<usize> for Info, for a length (usize is 64 bits wide).
Info_try_from_usize(n) == Info_from_u64(U64(n))

\* The 5-bit code encode_hdr writes for an Info (its match, without the
\* Tiny(val) > 23 arm).
InfoCode(info) ==
    CASE info.t = "Tiny" -> info.val
      [] info.t = "U8" -> 24
      [] info.t = "U16" -> 25
      [] info.t = "U32" -> 26
      [] info.t = "U64" -> 27
      [] info.t = "Reserved28" -> 28
      [] info.t = "Reserved29" -> 29
      [] info.t = "Reserved30" -> 30
      [] OTHER -> 31

-----------------------------------------------------------------------------
(* Header and additional value.                                            *)

\* fn encode_hdr: Result<usize> and the writer afterwards.
encode_hdr(major, info, w) ==
    IF info.t = "Tiny" /\ info.val > 23
    THEN [st |-> "FailCbor", n |-> 0, w |-> w]
    ELSE LET r == write_w(w, <<(major * 32 + InfoCode(info)) % 256>>) IN
         [st |-> r.st, n |-> IF IsOk(r) THEN 1 ELSE 0, w |-> r.w]

\* fn decode_hdr: (major, info, 1).
decode_hdr(s, pos) ==
    LET r == read_r(s, pos, 1) IN
    IF ~IsOk(r) THEN [st |-> r.st, major |-> 0, info |-> Tiny(0), n |-> 0, pos |-> r.pos]
    ELSE LET b == r.bytes[1]
             i == Info_try_from_u8(b % 32)
         IN  [st |-> i.st, major |-> b \div 32, info |-> i.val, n |-> 1, pos |-> r.pos]

\* The bytes encode_addnl puts in scratch[..n].
AddnlBytes(num) ==
    IF U64Le(num, U64(23)) THEN <<>>
    ELSE IF U64Le(num, U64(255)) THEN SubSeq(num, 8, 8)
    ELSE IF U64Le(num, U64(65535)) THEN SubSeq(num, 7, 8)
    ELSE IF U64Le(num, ZeroExtend(Fill(255, 4))) THEN SubSeq(num, 5, 8)
    ELSE num

\* A mutant of encode_addnl: a magnitude below 2^32 is written in four bytes
\* even when two would do.
encode_addnl_Mut(num, w) ==
    LET bytes == IF U64Le(num, U64(23)) THEN <<>>
                 ELSE IF U64Le(num, U64(255)) THEN SubSeq(num, 8, 8)
                 ELSE IF U64Le(num, ZeroExtend(Fill(255, 4))) THEN SubSeq(num, 5, 8)
                 ELSE num
        r == write_w(w, bytes)
    IN  [st |-> r.st, n |-> IF IsOk(r) THEN Len(bytes) ELSE 0, w |-> r.w]

\* fn encode_addnl.
encode_addnl(num, w) ==
    LET bytes == AddnlBytes(num)
        r == write_w(w, bytes)
    IN  [st |-> r.st, n |-> IF IsOk(r) THEN Len(bytes) ELSE 0, w |-> r.w]

\* The number of bytes decode_addnl reads for an Info; -1 for the reserved
\* codes, which have no additional value.
AddnlWidth(info) ==
    CASE info.t = "Tiny" -> 0
      [] info.t = "U8" -> 1
      [] info.t = "U16" -> 2
      [] info.t = "U32" -> 4
      [] info.t = "U64" -> 8
      [] info.t = "Indefinite" -> 0
      [] OTHER -> -1

\* A mutant of decode_addnl: the reserved codes read as the number 0.
decode_addnl_Mut(info, s, pos) ==
    IF AddnlWidth(info) = -1 THEN [st |-> "Ok", num |-> U64(0), n |-> 0, pos |-> pos]
    ELSE IF info.t = "Tiny" THEN [st |-> "Ok", num |-> U64(info.val), n |-> 0, pos |-> pos]
    ELSE LET r == read_r(s, pos, AddnlWidth(info)) IN
         IF ~IsOk(r) THEN [st |-> r.st, num |-> U64(0), n |-> 0, pos |-> r.pos]
         ELSE [st |-> "Ok", num |-> ZeroExtend(r.bytes), n |-> AddnlWidth(info), pos |-> r.pos]

\* fn decode_addnl: (num, n) and the reader's position afterwards.
decode_addnl(info, s, pos) ==
    IF AddnlWidth(info) = -1 THEN [st |-> "FailCbor", num |-> U64(0), n |-> 0, pos |-> pos]
    ELSE IF info.t = "Tiny" THEN [st |-> "Ok", num |-> U64(info.val), n |-> 0, pos |-> pos]
    ELSE IF info.t = "Indefinite" THEN [st |-> "Ok", num |-> U64(0), n |-> 0, pos |-> pos]
    ELSE LET r == read_r(s, pos, AddnlWidth(info)) IN
         IF ~IsOk(r) THEN [st |-> r.st, num |-> U64(0), n |-> 0, pos |-> r.pos]
         ELSE [st |-> "Ok", num |-> ZeroExtend(r.bytes), n |-> AddnlWidth(info), pos |-> r.pos]

-----------------------------------------------------------------------------
(* The value model.                                                        *)

Major0(info, num) == [info |-> info, major |-> 0, val |-> num]
Major1(info, num) == [info |-> info, major |-> 1, val |-> num]
Major2(info, byts) == [info |-> info, major |-> 2, val |-> byts]
Major3(info, text) == [info |-> info, major |-> 3, val |-> text]
Major4(info, list) == [info |-> info, major |-> 4, val |-> list]
Major5(info, map) == [info |-> info, major |-> 5, val |-> map]
Major6(info, tag) == [info |-> info, major |-> 6, val |-> tag]
Major7(info, sval) == [info |-> info, major |-> 7, val |-> sval]
Binary(data) == [major |-> 8, val |-> data]

\* The value of a Result that is an error.
NoVal == [major |-> 9, val |-> <<>>]

\* SimpleValue: [t |-> variant, val |-> the bytes it carries].
Unassigned == [t |-> "Unassigned", val |-> <<>>]
SvTrue == [t |-> "True", val |-> <<>>]
SvFalse == [t |-> "False", val |-> <<>>]
Null == [t |-> "Null", val |-> <<>>]
Undefined == [t |-> "Undefined", val |-> <<>>]
Reserved24(b) == [t |-> "Reserved24", val |-> <<b>>]
F16(bits) == [t |-> "F16", val |-> bits]
F32(bits) == [t |-> "F32", val |-> bits]
F64(bits) == [t |-> "F64", val |-> bits]
Break == [t |-> "Break", val |-> <<>>]

\* Tag.
Identifier(v) == [t |-> "Identifier", val |-> v]
TagValue(num) == [t |-> "Value", val |-> num]

\* Key.
KeyBool(b) == [t |-> "Bool", val |-> b]
KeyN64(i) == [t |-> "N64", val |-> i]
KeyU64(num) == [t |-> "U64", val |-> num]
KeyF32(bits) == [t |-> "F32", val |-> bits]
KeyF64(bits) == [t |-> "F64", val |-> bits]
KeyBytes(byts) == [t |-> "Bytes", val |-> byts]
KeyText(text) == [t |-> "Text", val |-> text]

\* i64 values.
I64Neg(mag) == [neg |-> TRUE, mag |-> mag]
I64Pos(mag) == [neg |-> FALSE, mag |-> mag]
I64_MIN == I64Neg(I64_MIN_MAG)

IsBreak(v) == v.major = 7 /\ v.val.t = "Break"

-----------------------------------------------------------------------------
(* SimpleValue.                                                            *)

\* impl IntoCbor for SimpleValue.
SimpleValue_into_cbor(sval) ==
    CASE sval.t = "True" -> [st |-> "Ok", val |-> Major7(Tiny(20), sval)]
      [] sval.t = "False" -> [st |-> "Ok", val |-> Major7(Tiny(21), sval)]
      [] sval.t = "Null" -> [st |-> "Ok", val |-> Major7(Tiny(22), sval)]
      [] sval.t = "F32" -> [st |-> "Ok", val |-> Major7(InfoU32, sval)]
      [] sval.t = "F64" -> [st |-> "Ok", val |-> Major7(InfoU64, sval)]
      [] sval.t = "Break" -> [st |-> "Ok", val |-> Major7(Indefinite, sval)]
      [] OTHER -> [st |-> "FailConvert", val |-> NoVal]

\* SimpleValue::to_type_order.
SimpleValue_to_type_order(sval) ==
    CASE sval.t = "Unassigned" -> 4
      [] sval.t = "True" -> 8
      [] sval.t = "False" -> 12
      [] sval.t = "Null" -> 16
      [] sval.t = "Undefined" -> 20
      [] sval.t = "Reserved24" -> 24
      [] sval.t = "F16" -> 28
      [] sval.t = "F32" -> 32
      [] sval.t = "F64" -> 36
      [] OTHER -> 40

\* SimpleValue::encode: every variant writes the bytes it carries.
SimpleValue_encode(sval, w) ==
    LET bytes == IF sval.t \in {"Reserved24", "F16", "F32", "F64"} THEN sval.val ELSE <<>>
        r == write_w(w, bytes)
    IN  [st |-> r.st, n |-> IF IsOk(r) THEN Len(bytes) ELSE 0, w |-> r.w]

\* A mutant of SimpleValue_decode: the half float is read as two bytes.
SimpleValue_decode_Mut(info, s, pos) ==
    LET Fail == [st |-> "FailCbor", val |-> Unassigned, n |-> 0, pos |-> pos] IN
    CASE info = Tiny(20) -> [st |-> "Ok", val |-> SvTrue, n |-> 0, pos |-> pos]
      [] info = Tiny(21) -> [st |-> "Ok", val |-> SvFalse, n |-> 0, pos |-> pos]
      [] info = Tiny(22) -> [st |-> "Ok", val |-> Null, n |-> 0, pos |-> pos]
      [] info.t \in {"U16", "U32", "U64"} ->
            LET k == AddnlWidth(info)
                r == read_r(s, pos, k)
            IN  IF ~IsOk(r) THEN [st |-> r.st, val |-> Unassigned, n |-> 0, pos |-> r.pos]
                ELSE [st |-> "Ok",
                      val |-> IF k = 2 THEN F16(r.bytes)
                              ELSE IF k = 4 THEN F32(r.bytes) ELSE F64(r.bytes),
                      n |-> k, pos |-> r.pos]
      [] info.t = "Indefinite" -> [st |-> "Ok", val |-> Break, n |-> 0, pos |-> pos]
      [] OTHER -> Fail

\* SimpleValue::decode.
SimpleValue_decode(info, s, pos) ==
    LET Fail == [st |-> "FailCbor", val |-> Unassigned, n |-> 0, pos |-> pos] IN
    CASE info = Tiny(20) -> [st |-> "Ok", val |-> SvTrue, n |-> 0, pos |-> pos]
      [] info = Tiny(21) -> [st |-> "Ok", val |-> SvFalse, n |-> 0, pos |-> pos]
      [] info = Tiny(22) -> [st |-> "Ok", val |-> Null, n |-> 0, pos |-> pos]
      [] info = Tiny(23) -> Fail
      [] info.t = "Tiny" -> Fail
      [] info.t = "U8" -> Fail
      [] info.t = "U16" -> Fail
      [] info.t \in {"U32", "U64"} ->
            LET k == AddnlWidth(info)
                r == read_r(s, pos, k)
            IN  IF ~IsOk(r) THEN [st |-> r.st, val |-> Unassigned, n |-> 0, pos |-> r.pos]
                ELSE [st |-> "Ok", val |-> IF k = 4 THEN F32(r.bytes) ELSE F64(r.bytes),
                      n |-> k, pos |-> r.pos]
      [] info.t \in {"Reserved28", "Reserved29", "Reserved30"} -> Fail
      [] OTHER -> [st |-> "Ok", val |-> Break, n |-> 0, pos |-> pos]

-----------------------------------------------------------------------------
(* UTF-8, as std::str::from_utf8 checks it.                                *)

RECURSIVE Utf8Valid(_)
Utf8Valid(b) ==
    IF b = <<>> THEN TRUE
    ELSE LET x == b[1]
             Cont(i) == Len(b) >= i /\ b[i] \in 128..191
             Rest(k) == Utf8Valid(SubSeq(b, k + 1, Len(b)))
         IN  CASE x < 128 -> Rest(1)
               [] x \in 194..223 -> Cont(2) /\ Rest(2)
               [] x = 224 -> Len(b) >= 2 /\ b[2] \in 160..191 /\ Cont(3) /\ Rest(3)
               [] x \in 225..236 \cup {238, 239} -> Cont(2) /\ Cont(3) /\ Rest(3)
               [] x = 237 -> Len(b) >= 2 /\ b[2] \in 128..159 /\ Cont(3) /\ Rest(3)
               [] x = 240 -> Len(b) >= 2 /\ b[2] \in 144..191 /\ Cont(3) /\ Cont(4) /\ Rest(4)
               [] x \in 241..243 -> Cont(2) /\ Cont(3) /\ Cont(4) /\ Rest(4)
               [] x = 244 -> Len(b) >= 2 /\ b[2] \in 128..143 /\ Cont(3) /\ Cont(4) /\ Rest(4)
               [] OTHER -> FALSE

-----------------------------------------------------------------------------
(* Key: conversions.                                                       *)

\* Tag::to_tag_value.
to_tag_value(tag) == IF tag.t = "Identifier" THEN U64(39) ELSE tag.val

\* impl From<Tag> for Cbor.
Cbor_from_Tag(tag) == Major6(Info_from_u64(to_tag_value(tag)), tag)

\* impl IntoCbor for Key.  Key::N64(key): key.abs() - 1 overflows for
\* i64::MIN (abs panics with overflow checks; without them abs wraps to
\* i64::MIN and the subtraction wraps to i64::MAX).
Key_into_cbor(key) ==
    CASE key.t = "U64" -> [st |-> "Ok", val |-> Major0(Info_from_u64(key.val), key.val)]
      [] key.t = "N64" ->
            IF ~key.val.neg THEN [st |-> "FailConvert", val |-> NoVal]
            ELSE IF key.val = I64_MIN /\ OverflowPanics THEN [st |-> "Panic", val |-> NoVal]
            ELSE LET v == WrappingDec(key.val.mag) IN
                 [st |-> "Ok", val |-> Major1(Info_from_u64(v), v)]
      [] key.t = "Bytes" ->
            [st |-> "Ok", val |-> Major2(Info_try_from_usize(Len(key.val)), key.val)]
      [] key.t = "Text" ->
            [st |-> "Ok", val |-> Major3(Info_try_from_usize(Len(key.val)), key.val)]
      [] key.t = "Bool" ->
            SimpleValue_into_cbor(IF key.val THEN SvTrue ELSE SvFalse)
      [] key.t = "F32" -> SimpleValue_into_cbor(F32(key.val))
      [] OTHER -> SimpleValue_into_cbor(F64(key.val))

\* impl FromCbor for Key.  Major1(_, key): key + 1 overflows for u64::MAX
\* (a panic with overflow checks, 0 without them).
Key_from_cbor(v) ==
    CASE v.major = 0 -> [st |-> "Ok", val |-> KeyU64(v.val)]
      [] v.major = 1 ->
            IF v.val = U64_MAX
            THEN IF OverflowPanics THEN [st |-> "Panic", val |-> NoVal]
                 ELSE [st |-> "Ok", val |-> KeyN64(I64Pos(U64(0)))]
            ELSE IF ~U64Le(WrappingInc(v.val), I64_MAX)
                 THEN [st |-> "FailConvert", val |-> NoVal]
                 ELSE [st |-> "Ok", val |-> KeyN64(I64Neg(WrappingInc(v.val)))]
      [] v.major = 2 -> [st |-> "Ok", val |-> KeyBytes(v.val)]
      [] v.major = 3 ->
            IF Utf8Valid(v.val) THEN [st |-> "Ok", val |-> KeyText(v.val)]
            ELSE [st |-> "FailConvert", val |-> NoVal]
      [] v.major = 7 /\ v.val.t = "True" -> [st |-> "Ok", val |-> KeyBool(TRUE)]
      [] v.major = 7 /\ v.val.t = "False" -> [st |-> "Ok", val |-> KeyBool(FALSE)]
      [] v.major = 7 /\ v.val.t = "F32" -> [st |-> "Ok", val |-> KeyF32(v.val.val)]
      [] v.major = 7 /\ v.val.t = "F64" -> [st |-> "Ok", val |-> KeyF64(v.val.val)]
      [] OTHER -> [st |-> "FailCbor", val |-> NoVal]

-----------------------------------------------------------------------------
(* Cbor::encode.                                                           *)

\* let x = e; F(x): e is evaluated once and its value handed on.
AndThen(e, F(_)) == CHOOSE r \in {F(x) : x \in {e}} : TRUE

\* The guard at the head of do_encode and of do_decode.
DepthExceeded(depth) == depth > RECURSION_LIMIT

\* The depth at which an item of an array or a map is entered (depth + 1),
\* and the one at which the value of an Identifier tag is entered: Tag::encode
\* calls val.encode(w) and Tag::decode calls Cbor::decode(r), which start at
\* depth 1.
ItemDepth(depth) == depth + 1
TagValueDepth == 1

\* An error return of an encoding step: nothing counted, the writer as the
\* failing call left it.
EncErr(st, w) == [st |-> st, n |-> 0, w |-> w]

\* Cbor::to_major_val; data[0] of an empty Binary is out of bounds.
to_major_val(v) ==
    IF v.major = 8
    THEN IF v.val = <<>> THEN [st |-> "Panic", val |-> 0]
         ELSE [st |-> "Ok", val |-> v.val[1] \div 32]
    ELSE [st |-> "Ok", val |-> v.major]

RECURSIVE do_encode(_, _, _)
RECURSIVE encode_list(_, _, _, _, _)
RECURSIVE encode_map(_, _, _, _, _)
RECURSIVE Tag_encode(_, _)

\* The loop of do_encode over the items of a Major4, from item i on; acc is
\* the count so far.
encode_list(list, i, w, depth, acc) ==
    IF i > Len(list) THEN [st |-> "Ok", n |-> acc, w |-> w]
    ELSE AndThen(do_encode(list[i], w, ItemDepth(depth)), LAMBDA x :
         IF ~IsOk(x) THEN EncErr(x.st, x.w)
         ELSE encode_list(list, i + 1, x.w, depth, acc + x.n))

\* A mutant of encode_map: the pairs are written last to first.
RECURSIVE encode_map_Mut(_, _, _, _, _)
encode_map_Mut(map, i, w, depth, acc) ==
    IF i > Len(map) THEN [st |-> "Ok", n |-> acc, w |-> w]
    ELSE LET pair == map[Len(map) + 1 - i]
             key == Key_into_cbor(pair[1])
         IN  IF ~IsOk(key) THEN EncErr(key.st, w)
             ELSE AndThen(do_encode(key.val, w, ItemDepth(depth)), LAMBDA k :
                  IF ~IsOk(k) THEN EncErr(k.st, k.w)
                  ELSE AndThen(do_encode(pair[2], k.w, ItemDepth(depth)), LAMBDA x :
                       IF ~IsOk(x) THEN EncErr(x.st, x.w)
                       ELSE encode_map_Mut(map, i + 1, x.w, depth, acc + k.n + x.n)))

\* The loop of do_encode over the (key, value) pairs of a Major5.
encode_map(map, i, w, depth, acc) ==
    IF i > Len(map) THEN [st |-> "Ok", n |-> acc, w |-> w]
    ELSE LET key == Key_into_cbor(map[i][1]) IN
         IF ~IsOk(key) THEN EncErr(key.st, w)
         ELSE AndThen(do_encode(key.val, w, ItemDepth(depth)), LAMBDA k :
              IF ~IsOk(k) THEN EncErr(k.st, k.w)
              ELSE AndThen(do_encode(map[i][2], k.w, ItemDepth(depth)), LAMBDA x :
                   IF ~IsOk(x) THEN EncErr(x.st, x.w)
                   ELSE encode_map(map, i + 1, x.w, depth, acc + k.n + x.n)))

\* A mutant of Tag_encode: the value of an Identifier is not written.
Tag_encode_Mut(tag, w) ==
    LET a == encode_addnl(to_tag_value(tag), w) IN
    IF ~IsOk(a) THEN EncErr(a.st, a.w)
    ELSE [st |-> "Ok", n |-> a.n, w |-> a.w]

\* Tag::encode: the number, then for an Identifier val.encode(w).
Tag_encode(tag, w) ==
    LET a == encode_addnl(to_tag_value(tag), w) IN
    IF ~IsOk(a) THEN EncErr(a.st, a.w)
    ELSE IF tag.t = "Identifier"
         THEN AndThen(do_encode(tag.val, a.w, TagValueDepth), LAMBDA x :
              IF ~IsOk(x) THEN EncErr(x.st, x.w)
              ELSE [st |-> "Ok", n |-> a.n + x.n, w |-> x.w])
         ELSE [st |-> "Ok", n |-> a.n, w |-> a.w]

\* Cbor::do_encode: Result<usize> and the writer afterwards.
do_encode(v, w, depth) ==
    IF DepthExceeded(depth) THEN EncErr("FailCbor", w)
    ELSE IF ~IsOk(to_major_val(v)) THEN EncErr("Panic", w)
    ELSE IF v.major = 8
         THEN LET r == write_w(w, v.val) IN
              IF ~IsOk(r) THEN EncErr(r.st, r.w)
              ELSE [st |-> "Ok", n |-> Len(v.val), w |-> r.w]
    ELSE LET h == encode_hdr(to_major_val(v).val, v.info, w) IN
         IF ~IsOk(h) THEN EncErr(h.st, h.w)
         ELSE CASE v.major \in {0, 1} ->
                    LET a == encode_addnl(v.val, h.w) IN
                    IF ~IsOk(a) THEN EncErr(a.st, a.w)
                    ELSE [st |-> "Ok", n |-> h.n + a.n, w |-> a.w]
                [] v.major \in {2, 3} ->
                    LET a == encode_addnl(U64(Len(v.val)), h.w) IN
                    IF ~IsOk(a) THEN EncErr(a.st, a.w)
                    ELSE LET r == write_w(a.w, v.val) IN
                         IF ~IsOk(r) THEN EncErr(r.st, r.w)
                         ELSE [st |-> "Ok", n |-> h.n + a.n + Len(v.val), w |-> r.w]
                [] v.major = 4 ->
                    LET a == encode_addnl(U64(Len(v.val)), h.w) IN
                    IF ~IsOk(a) THEN EncErr(a.st, a.w)
                    ELSE AndThen(encode_list(v.val, 1, a.w, depth, 0), LAMBDA l :
                         IF ~IsOk(l) THEN l
                         ELSE [st |-> "Ok", n |-> h.n + a.n + l.n, w |-> l.w])
                [] v.major = 5 ->
                    LET a == encode_addnl(U64(Len(v.val)), h.w) IN
                    IF ~IsOk(a) THEN EncErr(a.st, a.w)
                    ELSE AndThen(encode_map(v.val, 1, a.w, depth, 0), LAMBDA l :
                         IF ~IsOk(l) THEN l
                         ELSE [st |-> "Ok", n |-> h.n + a.n + l.n, w |-> l.w])
                [] v.major = 6 ->
                    AndThen(Tag_encode(v.val, h.w), LAMBDA t :
                    IF ~IsOk(t) THEN t
                    ELSE [st |-> "Ok", n |-> h.n + t.n, w |-> t.w])
                [] OTHER ->
                    LET x == SimpleValue_encode(v.val, h.w) IN
                    IF ~IsOk(x) THEN EncErr(x.st, x.w)
                    ELSE [st |-> "Ok", n |-> h.n + x.n, w |-> x.w]

\* Cbor::encode.
Cbor_encode(v, w) == do_encode(v, w, 1)

-----------------------------------------------------------------------------
(* Cbor::decode.                                                           *)

\* An error return of a decoding step.
DecErr(st, pos) == [st |-> st, val |-> NoVal, n |-> 0, pos |-> pos]

\* data.extend_from_slice(&chunk) in the indefinite string loops.
\* A mutant: the chunk is put in front of what was gathered.
extend_from_slice_Mut(data, chunk) == chunk \o data

extend_from_slice(data, chunk) == data \o chunk

\* The count an indefinite loop returns when it meets the Break: m holds the
\* items before it; the Break's own count k (and j, the count of the item
\* read in key position in the map loop) is not added.
BreakCount(m, j, k) == m

RECURSIVE do_decode(_, _, _)
RECURSIVE decode_chunks(_, _, _, _, _, _)
RECURSIVE decode_items(_, _, _, _, _, _)
RECURSIVE decode_items_indef(_, _, _, _, _)
RECURSIVE decode_pairs(_, _, _, _, _, _)
RECURSIVE decode_pairs_indef(_, _, _, _, _)
RECURSIVE Tag_decode(_, _, _)
RECURSIVE decode_body(_, _, _)

\* The loop of (2, Indefinite) and (3, Indefinite).
decode_chunks(s, pos, depth, major, data, m) ==
    AndThen(do_decode(s, pos, ItemDepth(depth)), LAMBDA x :
    IF ~IsOk(x) THEN DecErr(x.st, x.pos)
    ELSE IF x.val.major = major
         THEN decode_chunks(s, x.pos, depth, major, extend_from_slice(data, x.val.val), m + x.n)
    ELSE IF IsBreak(x.val)
         THEN [st |-> "Ok", val |-> data, n |-> BreakCount(m, 0, x.n), pos |-> x.pos]
    ELSE DecErr("FailConvert", x.pos))

\* The loop of (4, info): len more items.  The iterations are taken in two
\* runs, the second starting where the first ended, which keeps the
\* evaluation of a long loop shallow.
decode_items(s, pos, depth, len, list, m) ==
    IF len = 0 THEN [st |-> "Ok", val |-> list, n |-> m, pos |-> pos]
    ELSE IF len = 1
    THEN AndThen(do_decode(s, pos, ItemDepth(depth)), LAMBDA x :
         IF ~IsOk(x) THEN DecErr(x.st, x.pos)
         ELSE [st |-> "Ok", val |-> Append(list, x.val), n |-> m + x.n, pos |-> x.pos])
    ELSE AndThen(decode_items(s, pos, depth, len \div 2, list, m), LAMBDA a :
         IF ~IsOk(a) THEN a
         ELSE decode_items(s, a.pos, depth, len - (len \div 2), a.val, a.n))

\* The loop of (4, Indefinite).
decode_items_indef(s, pos, depth, list, m) ==
    AndThen(do_decode(s, pos, ItemDepth(depth)), LAMBDA x :
    IF ~IsOk(x) THEN DecErr(x.st, x.pos)
    ELSE IF IsBreak(x.val)
         THEN [st |-> "Ok", val |-> list, n |-> BreakCount(m, 0, x.n), pos |-> x.pos]
    ELSE decode_items_indef(s, x.pos, depth, Append(list, x.val), m + x.n))

\* The loop of (5, info): len more pairs, taken in two runs like the items
\* of an array.
decode_pairs(s, pos, depth, len, map, m) ==
    IF len = 0 THEN [st |-> "Ok", val |-> map, n |-> m, pos |-> pos]
    ELSE IF len = 1
    THEN AndThen(do_decode(s, pos, ItemDepth(depth)), LAMBDA key :
         IF ~IsOk(key) THEN DecErr(key.st, key.pos)
         ELSE AndThen(do_decode(s, key.pos, ItemDepth(depth)), LAMBDA x :
              IF ~IsOk(x) THEN DecErr(x.st, x.pos)
              ELSE LET k == Key_from_cbor(key.val) IN
                   IF ~IsOk(k) THEN DecErr(k.st, x.pos)
                   ELSE [st |-> "Ok", val |-> Append(map, <<k.val, x.val>>),
                         n |-> m + key.n + x.n, pos |-> x.pos]))
    ELSE AndThen(decode_pairs(s, pos, depth, len \div 2, map, m), LAMBDA a :
         IF ~IsOk(a) THEN a
         ELSE decode_pairs(s, a.pos, depth, len - (len \div 2), a.val, a.n))

\* The loop of (5, Indefinite): a key item and a value item are decoded, and
\* the loop ends when the value item is a Break.
decode_pairs_indef(s, pos, depth, map, m) ==
    AndThen(do_decode(s, pos, ItemDepth(depth)), LAMBDA key :
    IF ~IsOk(key) THEN DecErr(key.st, key.pos)
    ELSE AndThen(do_decode(s, key.pos, ItemDepth(depth)), LAMBDA x :
         IF ~IsOk(x) THEN DecErr(x.st, x.pos)
         ELSE IF IsBreak(x.val)
              THEN [st |-> "Ok", val |-> map, n |-> BreakCount(m, key.n, x.n), pos |-> x.pos]
         ELSE LET k == Key_from_cbor(key.val) IN
              IF ~IsOk(k) THEN DecErr(k.st, x.pos)
              ELSE decode_pairs_indef(s, x.pos, depth,
                                      Append(map, <<k.val, x.val>>), m + key.n + x.n)))

\* Tag::decode: the number; 39 is followed by one value read by
\* Cbor::decode.
Tag_decode(info, s, pos) ==
    LET a == decode_addnl(info, s, pos) IN
    IF ~IsOk(a) THEN DecErr(a.st, a.pos)
    ELSE IF a.num = U64(39)
         THEN AndThen(do_decode(s, a.pos, TagValueDepth), LAMBDA x :
              IF ~IsOk(x) THEN DecErr(x.st, x.pos)
              ELSE [st |-> "Ok", val |-> Identifier(x.val), n |-> x.n + a.n, pos |-> x.pos])
         ELSE [st |-> "Ok", val |-> TagValue(a.num), n |-> a.n, pos |-> a.pos]

\* The arm of do_decode's match for the header h read at depth.  vec![0; len]
\* panics for a len above isize::MAX; below it the buffer is taken to be
\* allocated and read_exact meets the short read.
decode_body(h, s, depth) ==
    CASE h.major \in {0, 1} ->
            LET a == decode_addnl(h.info, s, h.pos) IN
            IF ~IsOk(a) THEN DecErr(a.st, a.pos)
            ELSE [st |-> "Ok", val |-> a.num, n |-> a.n, pos |-> a.pos]
      [] h.major \in {2, 3} /\ h.info = Indefinite ->
            decode_chunks(s, h.pos, depth, h.major, <<>>, 0)
      [] h.major \in {2, 3} ->
            LET a == decode_addnl(h.info, s, h.pos) IN
            IF ~IsOk(a) THEN DecErr(a.st, a.pos)
            ELSE IF ~U64Le(a.num, I64_MAX) THEN DecErr("Panic", a.pos)
            ELSE LET len == ToNatCapped(a.num, Len(s))
                     r == read_r(s, a.pos, len)
                 IN  IF ~IsOk(r) THEN DecErr(r.st, r.pos)
                     ELSE [st |-> "Ok", val |-> r.bytes, n |-> a.n + len, pos |-> r.pos]
      [] h.major = 4 /\ h.info = Indefinite ->
            decode_items_indef(s, h.pos, depth, <<>>, 0)
      [] h.major = 4 ->
            LET a == decode_addnl(h.info, s, h.pos) IN
            IF ~IsOk(a) THEN DecErr(a.st, a.pos)
            ELSE decode_items(s, a.pos, depth, ToNatCapped(a.num, Len(s)), <<>>, a.n)
      [] h.major = 5 /\ h.info = Indefinite ->
            decode_pairs_indef(s, h.pos, depth, <<>>, 0)
      [] h.major = 5 ->
            LET a == decode_addnl(h.info, s, h.pos) IN
            IF ~IsOk(a) THEN DecErr(a.st, a.pos)
            ELSE decode_pairs(s, a.pos, depth, ToNatCapped(a.num, Len(s)), <<>>, a.n)
      [] h.major = 6 -> Tag_decode(h.info, s, h.pos)
      [] OTHER -> SimpleValue_decode(h.info, s, h.pos)

\* Cbor::do_decode: Result<(Cbor, usize)> and the reader's position
\* afterwards.
do_decode(s, pos, depth) ==
    IF DepthExceeded(depth) THEN DecErr("FailCbor", pos)
    ELSE LET h == decode_hdr(s, pos) IN
         IF ~IsOk(h) THEN DecErr(h.st, h.pos)
         ELSE AndThen(decode_body(h, s, depth), LAMBDA body :
              IF ~IsOk(body) THEN DecErr(body.st, body.pos)
              ELSE [st |-> "Ok",
                    val |-> [info |-> h.info, major |-> h.major, val |-> body.val],
                    n |-> body.n + h.n,
                    pos |-> body.pos])

\* Cbor::decode.
Cbor_decode(s) == do_decode(s, 0, 1)

-----------------------------------------------------------------------------
(* Key: equality and order.                                                *)

\* Ordering values: Less, Equal, Greater.
Less == -1
Equal == 0
Greater == 1

\* A mutant of Key_to_type_order: byte strings and text change places.
Key_to_type_order_Mut(key) ==
    CASE key.t = "Bool" -> 4
      [] key.t = "N64" -> 8
      [] key.t = "U64" -> 8
      [] key.t = "F32" -> 12
      [] key.t = "F64" -> 16
      [] key.t = "Bytes" -> 24
      [] OTHER -> 20

\* Key::to_type_order.
Key_to_type_order(key) ==
    CASE key.t = "Bool" -> 4
      [] key.t = "N64" -> 8
      [] key.t = "U64" -> 8
      [] key.t = "F32" -> 12
      [] key.t = "F64" -> 16
      [] key.t = "Bytes" -> 20
      [] OTHER -> 24

\* Ord for usize, u64, Vec<u8> and String (its UTF-8 bytes): the
\* lexicographic order of the big-endian bytes.
IntCmp(a, b) == IF a < b THEN Less ELSE IF a > b THEN Greater ELSE Equal

\* Ord for bool: false < true.
BoolCmp(a, b) == IntCmp(IF a THEN 1 ELSE 0, IF b THEN 1 ELSE 0)

\* Ord for i64.
I64Cmp(a, b) ==
    CASE a.neg /\ ~b.neg -> Less
      [] ~a.neg /\ b.neg -> Greater
      [] a.neg /\ b.neg -> BytesCmp(b.mag, a.mag)
      [] OTHER -> BytesCmp(a.mag, b.mag)

\* f32::total_cmp and f64::total_cmp on the bit patterns: the bits below the
\* sign are flipped when the sign is set, and the results compare as signed
\* integers.
TotalCmpBits(x) ==
    IF x[1] >= 128 THEN [i \in 1..Len(x) |-> IF i = 1 THEN 128 + (255 - x[1]) ELSE 255 - x[i]]
    ELSE x

SignedCmp(a, b) ==
    LET Flip(x) == [i \in 1..Len(x) |-> IF i = 1 THEN (x[1] + 128) % 256 ELSE x[i]]
    IN  BytesCmp(Flip(a), Flip(b))

total_cmp(a, b) == SignedCmp(TotalCmpBits(a), TotalCmpBits(b))

\* impl PartialEq for Key.
Key_eq(a, b) ==
    CASE a.t = "Bool" /\ b.t = "Bool" -> a.val = b.val
      [] a.t = "N64" /\ b.t = "N64" -> a.val = b.val
      [] a.t = "U64" /\ b.t = "U64" -> a.val = b.val
      [] a.t = "F32" /\ b.t = "F32" -> total_cmp(a.val, b.val) = Equal
      [] a.t = "F64" /\ b.t = "F64" -> total_cmp(a.val, b.val) = Equal
      [] a.t = "Bytes" /\ b.t = "Bytes" -> a.val = b.val
      [] a.t = "Text" /\ b.t = "Text" -> a.val = b.val
      [] OTHER -> FALSE

\* The value of unreachable!() in Key::cmp: the call panics.
Unreachable == 2

\* impl Ord for Key.
Key_cmp(a, b) ==
    IF Key_to_type_order(a) = Key_to_type_order(b)
    THEN CASE a.t = "Bool" /\ b.t = "Bool" -> BoolCmp(a.val, b.val)
           [] a.t = "N64" /\ b.t = "N64" -> I64Cmp(a.val, b.val)
           [] a.t = "U64" /\ b.t = "U64" -> BytesCmp(a.val, b.val)
           [] a.t = "N64" /\ b.t = "U64" -> Less
           [] a.t = "U64" /\ b.t = "N64" -> Greater
           [] a.t = "Bytes" /\ b.t = "Bytes" -> BytesCmp(a.val, b.val)
           [] a.t = "Text" /\ b.t = "Text" -> BytesCmp(a.val, b.val)
           [] a.t = "F32" /\ b.t = "F32" -> total_cmp(a.val, b.val)
           [] a.t = "F64" /\ b.t = "F64" -> total_cmp(a.val, b.val)
           [] OTHER -> Unreachable
    ELSE IntCmp(Key_to_type_order(a), Key_to_type_order(b))

-----------------------------------------------------------------------------
(* IntoCbor and FromCbor of the native types.  A native value is            *)
(* [ty |-> type, elem |-> T of an Option<T>, val |-> payload]: an i64       *)
(* record for the signed types, a u64 for the unsigned ones, bytes for      *)
(* "str" (String, &str), "slice" (&[u8]), "vec_u8" (Vec<u8> by the generic  *)
(* Vec<T>) and "bytes" (Vec<u8> by Cbor::bytes_into_cbor), a SimpleValue    *)
(* for "simple", and <<>> (None) or <<x>> (Some(x)) for "option".           *)

Native(ty, v) == [ty |-> ty, elem |-> "", val |-> v]
OptNone(elem) == [ty |-> "option", elem |-> elem, val |-> <<>>]
OptSome(x) == [ty |-> "option", elem |-> x.ty, val |-> <<x>>]

SignedTypes == {"i8", "i16", "i32", "i64"}
UnsignedTypes == {"u8", "u16", "u32", "u64"}

\* <$t>::MAX as a u64.
TypeMax(ty) ==
    CASE ty = "i8" -> U64(127)
      [] ty = "i16" -> U64(32767)
      [] ty = "i32" -> U64(2147483647)
      [] ty = "i64" -> I64_MAX
      [] ty = "u8" -> U64(255)
      [] ty = "u16" -> U64(65535)
      [] ty = "u32" -> <<0, 0, 0, 0, 255, 255, 255, 255>>
      [] OTHER -> U64_MAX

\* <$t>::MIN of a signed type: -(MAX + 1).
TypeMin(ty) == I64Neg(WrappingInc(TypeMax(ty)))

\* convert_pos_num!: IntoCbor for u64, u32, u16, u8.
Unsigned_into_cbor(num) == [st |-> "Ok", val |-> Major0(Info_from_u64(num), num)]

\* convert_neg_num!: IntoCbor for i64, i32, i16, i8, on val: i64 =
\* self.into().  val.abs() - 1 overflows for i64::MIN: abs panics with
\* overflow checks; without them abs wraps to i64::MIN and the subtraction
\* wraps to i64::MAX.
Signed_into_cbor(k) ==
    IF ~k.neg THEN Unsigned_into_cbor(k.mag)
    ELSE IF k = I64_MIN /\ OverflowPanics THEN [st |-> "Panic", val |-> NoVal]
    ELSE LET v == WrappingDec(k.mag) IN
         [st |-> "Ok", val |-> Major1(Info_from_u64(v), v)]

\* IntoCbor for &[u8] and Cbor::bytes_into_cbor.
Slice_into_cbor(byts) ==
    [st |-> "Ok", val |-> Major2(Info_from_u64(U64(Len(byts))), byts)]

Cbor_bytes_into_cbor(byts) ==
    [st |-> "Ok", val |-> Major2(Info_from_u64(U64(Len(byts))), byts)]

\* A mutant of Cbor_into_bytes: the items of an array of integers are taken
\* as the bytes.
Cbor_into_bytes_Mut(v) ==
    IF v.major = 2 THEN [st |-> "Ok", val |-> v.val]
    ELSE IF v.major = 4 THEN [st |-> "Ok", val |-> [i \in 1..Len(v.val) |-> v.val[i].val[8]]]
    ELSE [st |-> "FailConvert", val |-> <<>>]

\* Cbor::into_bytes.
Cbor_into_bytes(v) ==
    IF v.major = 2 THEN [st |-> "Ok", val |-> v.val]
    ELSE [st |-> "FailConvert", val |-> <<>>]

\* IntoCbor for &str and String.
Str_into_cbor(text) ==
    [st |-> "Ok", val |-> Major3(Info_from_u64(U64(Len(text))), text)]

\* IntoCbor for Vec<T> with T = u8: every item by u8::into_cbor.
VecU8_into_cbor(byts) ==
    [st |-> "Ok",
     val |-> Major4(Info_from_u64(U64(Len(byts))),
                    [i \in 1..Len(byts) |-> Unsigned_into_cbor(U64(byts[i])).val])]

RECURSIVE Native_into_cbor(_)

\* A mutant of Option_into_cbor: Some(x) is written as the one-item array of x.
Option_into_cbor_Mut(o) ==
    IF o.val = <<>> THEN SimpleValue_into_cbor(Null)
    ELSE LET x == Native_into_cbor(o.val[1]) IN
         IF ~IsOk(x) THEN x ELSE [st |-> "Ok", val |-> Major4(Tiny(1), <<x.val>>)]

\* IntoCbor for Option<T>.
Option_into_cbor(o) ==
    IF o.val = <<>> THEN SimpleValue_into_cbor(Null)
    ELSE Native_into_cbor(o.val[1])

\* x.into_cbor() by the type of x.
Native_into_cbor(x) ==
    CASE x.ty \in SignedTypes -> Signed_into_cbor(x.val)
      [] x.ty \in UnsignedTypes -> Unsigned_into_cbor(x.val)
      [] x.ty = "str" -> Str_into_cbor(x.val)
      [] x.ty = "slice" -> Slice_into_cbor(x.val)
      [] x.ty = "vec_u8" -> VecU8_into_cbor(x.val)
      [] x.ty = "bytes" -> Cbor_bytes_into_cbor(x.val)
      [] x.ty = "simple" -> SimpleValue_into_cbor(x.val)
      [] OTHER -> Option_into_cbor(x)

\* The result of a failed from_cbor.
FromErr(st) == [st |-> st, val |-> <<>>]

\* convert_pos_num!: FromCbor for u64, u32, u16, u8.
Unsigned_from_cbor(ty, v) ==
    IF v.major = 0 /\ U64Le(v.val, TypeMax(ty)) THEN [st |-> "Ok", val |-> v.val]
    ELSE FromErr("FailConvert")

\* convert_neg_num!: FromCbor for i64, i32, i16, i8.  val + 1 overflows for
\* u64::MAX (a panic with overflow checks, 0 without them).
Signed_from_cbor(ty, v) ==
    CASE v.major = 0 ->
            IF U64Le(v.val, TypeMax(ty)) THEN [st |-> "Ok", val |-> I64Pos(v.val)]
            ELSE FromErr("FailConvert")
      [] v.major = 1 ->
            IF v.val = U64_MAX
            THEN IF OverflowPanics THEN FromErr("Panic")
                 ELSE [st |-> "Ok", val |-> I64Pos(U64(0))]
            ELSE IF U64Le(WrappingInc(v.val), TypeMax(ty))
                 THEN [st |-> "Ok", val |-> I64Neg(WrappingInc(v.val))]
                 ELSE FromErr("FailConvert")
      [] OTHER -> FromErr("FailConvert")

\* FromCbor for String.
Str_from_cbor(v) ==
    IF v.major = 3 /\ Utf8Valid(v.val) THEN [st |-> "Ok", val |-> v.val]
    ELSE FromErr("FailConvert")

\* FromCbor for Vec<T> with T = u8.
VecU8_from_cbor(v) ==
    IF v.major # 4 THEN FromErr("FailConvert")
    ELSE IF \E i \in 1..Len(v.val) : ~IsOk(Unsigned_from_cbor("u8", v.val[i]))
         THEN FromErr("FailConvert")
    ELSE [st |-> "Ok",
          val |-> [i \in 1..Len(v.val) |-> Unsigned_from_cbor("u8", v.val[i]).val[8]]]

RECURSIVE Option_from_cbor(_, _)

\* T::from_cbor(v) for the types that have one ("slice" and "simple" have
\* none; "bytes" is read back by Cbor::into_bytes); an Option inside an
\* Option is an Option<u8>.
Plain_from_cbor(ty, v) ==
    CASE ty \in SignedTypes -> Signed_from_cbor(ty, v)
      [] ty \in UnsignedTypes -> Unsigned_from_cbor(ty, v)
      [] ty = "str" -> Str_from_cbor(v)
      [] ty = "vec_u8" -> VecU8_from_cbor(v)
      [] ty = "option" -> Option_from_cbor("u8", v)
      [] OTHER -> Cbor_into_bytes(v)

\* FromCbor for Option<T>, T = elem.
Option_from_cbor(elem, v) ==
    IF v.major = 7 /\ v.val.t = "Null" THEN [st |-> "Ok", val |-> <<>>]
    ELSE LET x == Plain_from_cbor(elem, v) IN
         IF ~IsOk(x) THEN x ELSE [st |-> "Ok", val |-> <<x.val>>]

\* <type of x>::from_cbor(v).
Native_from_cbor(x, v) ==
    IF x.ty = "option" THEN Option_from_cbor(x.elem, v) ELSE Plain_from_cbor(x.ty, v)

-----------------------------------------------------------------------------
(* The from_cbor that derive(Cborize) generates.  A type is                *)
(* [kind |-> "struct", id |-> ID, fields |-> types of the fields] or       *)
(* [kind |-> "enum", id |-> ID, variants |-> <<[name, fields], ...>>]; a    *)
(* unit struct or variant has no fields.                                    *)

StructDecl(id, fields) == [kind |-> "struct", id |-> id, fields |-> fields]
EnumDecl(id, variants) == [kind |-> "enum", id |-> id, variants |-> variants]
Variant(name, fields) == [name |-> name, fields |-> fields]

\* FromCbor for Vec<Cbor>.
VecCbor_from_cbor(v) ==
    IF v.major = 4 THEN [st |-> "Ok", val |-> v.val] ELSE FromErr("FailConvert")

\* let_id and the preamble: Tag::from_identifier(ID.into_cbor()?).into().
type_id(d) == Cbor_from_Tag(Identifier(Unsigned_into_cbor(d.id).val))

\* A mutant of arity_ok: items beyond the fields are let through.
arity_ok_Mut(n_fields, items) == n_fields <= Len(items)

\* The arity check: n_fields != items.len() is an error (items.len() > 0
\* for a unit variant).
arity_ok(n_fields, items) == n_fields = Len(items)

\* cbor_to_named_fields and its like: every field is
\* <ty as FromCbor>::from_cbor(items.remove(0))?, or
\* items.remove(0).into_bytes()? for a Vec<u8>; remove(0) on an empty
\* vector panics.
RECURSIVE cbor_to_fields(_, _, _)
cbor_to_fields(tys, items, acc) ==
    IF tys = <<>> THEN [st |-> "Ok", val |-> acc]
    ELSE IF items = <<>> THEN FromErr("Panic")
    ELSE LET x == Plain_from_cbor(Head(tys), Head(items)) IN
         IF ~IsOk(x) THEN FromErr(x.st)
         ELSE cbor_to_fields(Tail(tys), Tail(items), Append(acc, x.val))

\* from_cbor_to_struct.
Struct_from_cbor(d, value) ==
    LET vec == VecCbor_from_cbor(value) IN
    IF ~IsOk(vec) THEN vec
    ELSE IF Len(vec.val) = 0 THEN FromErr("FailConvert")
    ELSE IF Head(vec.val) # type_id(d) THEN FromErr("FailConvert")
    ELSE IF ~arity_ok(Len(d.fields), Tail(vec.val)) THEN FromErr("FailConvert")
    ELSE LET f == cbor_to_fields(d.fields, Tail(vec.val), <<>>) IN
         IF ~IsOk(f) THEN f ELSE [st |-> "Ok", val |-> [fields |-> f.val]]

\* from_cbor_to_enum.
Enum_from_cbor(d, value) ==
    LET vec == VecCbor_from_cbor(value) IN
    IF ~IsOk(vec) THEN vec
    ELSE IF Len(vec.val) < 2 THEN FromErr("FailConvert")
    ELSE IF Head(vec.val) # type_id(d) THEN FromErr("FailConvert")
    ELSE LET variant_name == Str_from_cbor(vec.val[2])
             items == Tail(Tail(vec.val)) IN
         IF ~IsOk(variant_name) THEN variant_name
         ELSE LET arms == {i \in 1..Len(d.variants) : d.variants[i].name = variant_name.val} IN
              IF arms = {} THEN FromErr("FailConvert")
              ELSE LET v == d.variants[CHOOSE i \in arms : \A j \in arms : i <= j] IN
                   IF ~arity_ok(Len(v.fields), items) THEN FromErr("FailConvert")
                   ELSE LET f == cbor_to_fields(v.fields, items, <<>>) IN
                        IF ~IsOk(f) THEN f
                        ELSE [st |-> "Ok", val |-> [variant |-> v.name, fields |-> f.val]]

\* <decl as FromCbor>::from_cbor(value).
Derived_from_cbor(d, value) ==
    IF d.kind = "struct" THEN Struct_from_cbor(d, value) ELSE Enum_from_cbor(d, value)

-----------------------------------------------------------------------------
(* db::Entry<K, V, D> with V a primitive type and D = V.  A Value is       *)
(* [t |-> "U", value, seqno] or [t |-> "D", seqno], a Delta is              *)
(* [t |-> "U", delta, seqno] or [t |-> "D", seqno], an Option is <<>> or    *)
(* <<x>>.                                                                   *)

ValueU(value, seqno) == [t |-> "U", value |-> value, seqno |-> seqno]
ValueD(seqno) == [t |-> "D", seqno |-> seqno]
DeltaU(delta, seqno) == [t |-> "U", delta |-> delta, seqno |-> seqno]
DeltaD(seqno) == [t |-> "D", seqno |-> seqno]

\* impl_diff_basic_types!: diff gives the old value, merge gives the delta.
Diff_diff(self, old) == old
Diff_merge(self, delta) == delta

Value_to_seqno(v) == v.seqno

Entry_new(key, value, seqno) ==
    [key |-> key, value |-> ValueU(value, seqno), deltas |-> <<>>]

Entry_new_deleted(key, seqno) ==
    [key |-> key, value |-> ValueD(seqno), deltas |-> <<>>]

\* A mutant of Entry_insert: the delta is pushed behind the older ones.
Entry_insert_Mut(e, value, seqn) ==
    LET delta == IF e.value.t = "U"
                 THEN DeltaU(Diff_diff(value, e.value.value), e.value.seqno)
                 ELSE DeltaD(e.value.seqno) IN
    [e EXCEPT !.value = ValueU(value, seqn), !.deltas = Append(@, delta)]

\* Entry::insert.
Entry_insert(e, value, seqn) ==
    LET delta == IF e.value.t = "U"
                 THEN DeltaU(Diff_diff(value, e.value.value), e.value.seqno)
                 ELSE DeltaD(e.value.seqno) IN
    [e EXCEPT !.value = ValueU(value, seqn), !.deltas = <<delta>> \o @]

\* A mutant of Entry_delete: the delta is pushed behind the older ones.
Entry_delete_Mut(e, seqn) ==
    LET delta == IF e.value.t = "U"
                 THEN DeltaU(e.value.value, e.value.seqno)
                 ELSE DeltaD(e.value.seqno) IN
    [e EXCEPT !.value = ValueD(seqn), !.deltas = Append(@, delta)]

\* Entry::delete; the delta of the old value is oldv.into().
Entry_delete(e, seqn) ==
    LET delta == IF e.value.t = "U"
                 THEN DeltaU(e.value.value, e.value.seqno)
                 ELSE DeltaD(e.value.seqno) IN
    [e EXCEPT !.value = ValueD(seqn), !.deltas = <<delta>> \o @]

\* Entry::to_value.
Entry_to_value(e) == IF e.value.t = "U" THEN <<e.value.value>> ELSE <<>>

Reverse(l) == [i \in 1..Len(l) |-> l[Len(l) + 1 - i]]

\* The loop of to_values over the deltas, newest first.
RECURSIVE to_values_loop(_, _, _)
to_values_loop(deltas, v, values) ==
    IF deltas = <<>> THEN values
    ELSE LET d == Head(deltas)
             old == CASE v # <<>> /\ d.t = "U" -> <<Diff_merge(v[1], d.delta)>>
                      [] v # <<>> /\ d.t = "D" -> <<>>
                      [] v = <<>> /\ d.t = "U" -> <<d.delta>>
                      [] OTHER -> <<>>
             value == IF old # <<>> THEN ValueU(old[1], d.seqno) ELSE ValueD(d.seqno)
         IN  to_values_loop(Tail(deltas), old, Append(values, value))

\* Entry::to_values.
Entry_to_values(e) ==
    Reverse(to_values_loop(e.deltas, Entry_to_value(e), <<e.value>>))

\* A mutant of sort_by_key: the values are left as they are.
sort_by_key_Mut(values) == values

\* values.sort_by_key(|v| v.to_seqno()): a stable sort.
RECURSIVE sort_by_key(_)
sort_by_key(values) ==
    IF values = <<>> THEN <<>>
    ELSE LET n == Len(values)
             front == sort_by_key(SubSeq(values, 1, n - 1))
             x == values[n]
             k == Cardinality({i \in 1..(n - 1) :
                                  Value_to_seqno(front[i]) <= Value_to_seqno(x)})
         IN  SubSeq(front, 1, k) \o <<x>> \o SubSeq(front, k + 1, n - 1)

\* The loop of From<(K, Vec<Value<V>>)> over the values after the first.
RECURSIVE Entry_from_loop(_, _)
Entry_from_loop(entry, values) ==
    IF values = <<>> THEN entry
    ELSE LET v == Head(values) IN
         Entry_from_loop(IF v.t = "U" THEN Entry_insert(entry, v.value, v.seqno)
                         ELSE Entry_delete(entry, v.seqno),
                         Tail(values))

\* impl From<(K, Vec<Value<V>>)> for Entry; an empty vector panics.
Entry_from(key, values) ==
    IF values = <<>> THEN [kind |-> "panic"]
    ELSE LET v == Head(values) IN
         Entry_from_loop(IF v.t = "U" THEN Entry_new(key, v.value, v.seqno)
                         ELSE Entry_new_deleted(key, v.seqno),
                         Tail(values))

\* Entry::merge.
Entry_merge(self, other) ==
    IF self.key # other.key THEN self
    ELSE Entry_from(self.key,
                    sort_by_key(Entry_to_values(self) \o Entry_to_values(other)))

\* ops::Bound<u64> and db::Cutoff.
Included(c) == [t |-> "Included", val |-> c]
Excluded(c) == [t |-> "Excluded", val |-> c]
Unbounded == [t |-> "Unbounded", val |-> 0]
Mono == [kind |-> "Mono", bound |-> Unbounded]
Lsm(bound) == [kind |-> "Lsm", bound |-> bound]
Tombstone(bound) == [kind |-> "Tombstone", bound |-> bound]

\* Option<Entry>.
EntryNone == [st |-> "Option::None"]
EntrySome(e) == [st |-> "Option::Some", val |-> e]

U64_MIN == 0

\* A mutant of tombstone_purged: a delete right at an included cutoff stays.
tombstone_purged_Mut(val_seqno, bound) ==
    CASE bound.t = "Included" -> val_seqno < bound.val
      [] bound.t = "Excluded" -> val_seqno < bound.val
      [] OTHER -> TRUE

\* Entry::purge, Cutoff::Tombstone(cutoff) if deleted: the arms that
\* return None.
tombstone_purged(val_seqno, bound) ==
    CASE bound.t = "Included" -> val_seqno <= bound.val
      [] bound.t = "Excluded" -> val_seqno < bound.val
      [] OTHER -> TRUE

\* Entry::purge, the closure of take_while.
purge_keeps(bound, d) ==
    CASE bound.t = "Included" -> d.seqno > bound.val
      [] bound.t = "Excluded" -> d.seqno >= bound.val
      [] OTHER -> FALSE

\* Iterator::take_while over the deltas.
RECURSIVE take_while(_, _)
take_while(bound, deltas) ==
    IF deltas = <<>> THEN <<>>
    ELSE IF purge_keeps(bound, Head(deltas))
         THEN <<Head(deltas)>> \o take_while(bound, Tail(deltas))
         ELSE <<>>

\* Entry::purge.
Entry_purge(self, c) ==
    LET val_seqno == self.value.seqno
        deleted == self.value.t = "D"
        bound == c.bound
    IN  CASE c.kind = "Mono" ->
                IF deleted THEN EntryNone ELSE EntrySome([self EXCEPT !.deltas = <<>>])
          [] c.kind = "Tombstone" ->
                IF deleted /\ tombstone_purged(val_seqno, bound) THEN EntryNone
                ELSE EntrySome(self)
          [] OTHER ->
                CASE bound.t = "Included" /\ bound.val = U64_MIN -> EntrySome(self)
                  [] bound.t = "Excluded" /\ bound.val = U64_MIN -> EntrySome(self)
                  [] bound.t = "Included" /\ val_seqno <= bound.val -> EntryNone
                  [] bound.t = "Excluded" /\ val_seqno < bound.val -> EntryNone
                  [] bound.t = "Unbounded" -> EntryNone
                  [] OTHER -> EntrySome([self EXCEPT !.deltas = take_while(bound, @)])

-----------------------------------------------------------------------------
(* The inputs of the calls.                                                *)

\* Bounds of the inputs.
MaxLen == 2        \* longest generated byte or text string
MaxItems == 2      \* most items of a generated array or map
MaxChunks == 3     \* most chunks, items or pairs of an indefinite stream
MaxExtra == 1      \* nesting levels walked beyond RECURSION_LIMIT + 1
MaxCap == 3        \* most room of a bounded writer, in bytes
MaxArgs == 3       \* most items after the identifier and the variant name
MaxOps == 2        \* most inserts and deletes on the two entries together
MaxSeqno == 2      \* largest seqno given to an operation
MaxClients == 2    \* most clients that get a Tx clone

\* All sequences over S of length at most n.
SeqsUpTo(S, n) == UNION {[1..k -> S] : k \in 0..n}

RECURSIVE Concat(_)
Concat(ss) == IF ss = <<>> THEN <<>> ELSE Head(ss) \o Concat(Tail(ss))

\* Magnitudes at the edges of the width classes (39 is the Identifier tag).
Magnitudes ==
    {U64(0), U64(1), U64(23), U64(24), U64(39), U64(255), U64(256), U64(65535),
     U64(65536), ZeroExtend(Fill(255, 4)), ZeroExtend(<<1, 0, 0, 0, 0>>),
     I64_MAX, I64_MIN_MAG, WrappingDec(U64_MAX), U64_MAX}

Infos ==
    {Tiny(n) : n \in {0, 1, 23, 24}}
        \cup {InfoU8, InfoU16, InfoU32, InfoU64, Reserved28, Reserved29, Reserved30, Indefinite}

ByteStrings == SeqsUpTo({97, 255}, MaxLen) \cup {Fill(97, 23), Fill(97, 24)}
Texts == SeqsUpTo({97, 98}, MaxLen) \cup {<<195, 169>>}

F32s == {<<0, 0, 0, 0>>, <<128, 0, 0, 0>>, <<63, 128, 0, 0>>, <<191, 128, 0, 0>>,
         <<127, 192, 0, 0>>, <<255, 192, 0, 0>>, <<127, 128, 0, 0>>}
F64s == {Fill(0, 8), <<128>> \o Fill(0, 7), <<63, 240>> \o Fill(0, 6),
         <<127, 248>> \o Fill(0, 6), <<255, 248>> \o Fill(0, 6)}

SimpleValues ==
    {Unassigned, SvTrue, SvFalse, Null, Undefined, Break, Reserved24(7), F16(<<60, 0>>)}
        \cup {F32(x) : x \in F32s} \cup {F64(x) : x \in F64s}

I64s ==
    {I64Neg(U64(1)), I64Neg(U64(2)), I64Neg(U64(25)), I64Neg(I64_MAX), I64_MIN,
     I64Pos(U64(0)), I64Pos(U64(5))}

Keys ==
    {KeyBool(b) : b \in BOOLEAN} \cup {KeyN64(i) : i \in I64s}
        \cup {KeyU64(m) : m \in {U64(0), U64(1), U64(24), I64_MIN_MAG, U64_MAX}}
        \cup {KeyF32(x) : x \in F32s} \cup {KeyF64(x) : x \in F64s}
        \cup {KeyBytes(b) : b \in SeqsUpTo({97, 255}, MaxLen)}
        \cup {KeyText(t) : t \in Texts}

\* The values the conversion layer and the Arbitrary impls build: the Info
\* is the one of the magnitude or of the length.
Scalars ==
    {Major0(Info_from_u64(m), m) : m \in Magnitudes}
        \cup {Major1(Info_from_u64(m), m) : m \in Magnitudes}

Strings ==
    {Major2(Info_try_from_usize(Len(b)), b) : b \in ByteStrings}
        \cup {Major3(Info_try_from_usize(Len(b)), b) : b \in ByteStrings}

Simples ==
    {SimpleValue_into_cbor(x).val : x \in {y \in SimpleValues : IsOk(SimpleValue_into_cbor(y))}}

PlainTags == {Cbor_from_Tag(TagValue(m)) : m \in Magnitudes \ {U64(39)}}

\* A few leaves to put into containers.
Leaves ==
    {Major0(Tiny(1), U64(1)), Major1(InfoU8, U64(24)), Major2(Tiny(1), <<255>>),
     Major3(Tiny(0), <<>>), Major7(Tiny(22), Null), Major7(InfoU32, F32(<<127, 192, 0, 0>>)),
     Cbor_from_Tag(TagValue(U64(7)))}

LeafKeys ==
    {KeyBool(TRUE), KeyN64(I64Neg(U64(2))), KeyU64(U64(5)), KeyF64(Fill(0, 8)),
     KeyBytes(<<255>>), KeyText(<<97>>)}

Arrays(S) == {Major4(Info_try_from_usize(Len(l)), l) : l \in SeqsUpTo(S, MaxItems)}
Maps(K, S) == {Major5(Info_try_from_usize(Len(l)), l) : l \in SeqsUpTo(K \X S, MaxItems)}
Identifiers(S) == {Cbor_from_Tag(Identifier(v)) : v \in S}

Inner ==
    {Major4(Tiny(1), <<Major0(Tiny(1), U64(1))>>),
     Major5(Tiny(1), <<<<KeyU64(U64(5)), Major3(Tiny(1), <<97>>)>>>>),
     Cbor_from_Tag(Identifier(Major0(Tiny(1), U64(1))))}

WellFormed ==
    Scalars \cup Strings \cup Simples \cup PlainTags
        \cup Arrays(Leaves) \cup Maps(LeafKeys, {Major0(Tiny(1), U64(1)), Major7(Tiny(22), Null)})
        \cup Identifiers(Leaves \cup Inner) \cup Arrays(Inner)
        \cup {Major5(Tiny(1), <<<<k, Major0(Tiny(1), U64(1))>>>>) : k \in Keys \ {KeyN64(i) : i \in {I64_MIN, I64Pos(U64(0)), I64Pos(U64(5))}}}

\* Values the public enums also allow: an Info that is not the one of the
\* magnitude, the simple values into_cbor rejects, the generic tag 39, keys
\* N64 that hold no negative number, the opaque variant.
Others ==
    {Major0(i, m) : i \in Infos, m \in {U64(0), U64(5), U64(24)}}
        \cup {Major2(i, b) : i \in {Tiny(0), InfoU8, Indefinite}, b \in {<<>>, <<97>>}}
        \cup {Major4(i, <<Major0(Tiny(1), U64(1))>>) : i \in {Tiny(2), Indefinite}}
        \cup {Major7(i, x) : i \in {Tiny(0), Tiny(20), Tiny(23), InfoU8, InfoU16}, x \in SimpleValues}
        \cup {Cbor_from_Tag(TagValue(U64(39)))}
        \cup {Major5(Tiny(1), <<<<KeyN64(i), Major0(Tiny(1), U64(1))>>>>) : i \in I64s}
        \cup {Binary(b) : b \in {<<>>, <<1>>, <<24>>, <<97, 97>>, <<130, 1, 2>>}}

EncodeInputs == WellFormed \cup Others

\* Native values handed to into_cbor.
SignedValues(ty) ==
    {I64Neg(U64(1)), I64Neg(U64(24)), I64Neg(U64(25)), I64Pos(U64(0)), I64Pos(U64(23)),
     I64Pos(TypeMax(ty)), TypeMin(ty)}

UnsignedValues(ty) == {U64(0), U64(23), U64(24), TypeMax(ty)}

PlainNatives ==
    UNION {{Native(ty, k) : k \in SignedValues(ty)} : ty \in SignedTypes}
        \cup UNION {{Native(ty, m) : m \in UnsignedValues(ty)} : ty \in UnsignedTypes}
        \cup {Native("str", t) : t \in Texts}
        \cup {Native(ty, b) : ty \in {"slice", "vec_u8", "bytes"},
                              b \in SeqsUpTo({97, 255}, MaxLen)}
        \cup {Native("simple", x) : x \in SimpleValues}

OptionNatives ==
    {OptNone(ty) : ty \in {"u8", "i64", "str", "vec_u8", "simple", "option"}}
        \cup {OptSome(x) : x \in {Native("u8", U64(5)), Native("i64", I64Neg(U64(1))),
                                   Native("str", <<97>>), Native("vec_u8", <<97, 255>>),
                                   Native("simple", Null), Native("simple", SvTrue),
                                   OptNone("u8"), OptSome(Native("u8", U64(5)))}}

Natives == PlainNatives \cup OptionNatives

\* The versions given to Entry::new / insert (an upsert) and to
\* Entry::new_deleted / delete (a tombstone).
EntryKeys == {10, 11}
EntryValues == {200, 300}
Seqnos == 1..MaxSeqno
Versions ==
    {ValueU(v, n) : v \in EntryValues, n \in Seqnos} \cup {ValueD(n) : n \in Seqnos}

\* The versions and cutoffs of the purge driver: seqno 0 (u64::MIN) is one
\* of the seqnos.
PurgeSeqnos == 0..MaxSeqno
PurgeVersions ==
    {ValueU(v, n) : v \in EntryValues, n \in PurgeSeqnos} \cup {ValueD(n) : n \in PurgeSeqnos}
Bounds ==
    {Included(c) : c \in 0..(MaxSeqno + 1)} \cup {Excluded(c) : c \in 0..(MaxSeqno + 1)}
        \cup {Unbounded}
Cutoffs == {Mono} \cup {Lsm(b) : b \in Bounds} \cup {Tombstone(b) : b \in Bounds}

\* Types with a derived from_cbor: structs with no, one and two fields, and
\* an enum with a unit variant A, a tuple variant B and a named variant C.
Decls ==
    {StructDecl(U64(1), f) : f \in {<<>>, <<"u64">>, <<"u64", "str">>}}
        \cup {EnumDecl(U64(2), <<Variant(<<65>>, <<>>), Variant(<<66>>, <<"u64">>),
                                 Variant(<<67>>, <<"u64", "bytes">>)>>)}

\* Messages handed to a derived from_cbor: an array of at most one item in
\* the place of the identifier, at most one in the place of the variant
\* name, and at most MaxArgs further items; and a value that is no array.
MsgIds ==
    {<<>>, <<Major0(Tiny(1), U64(1))>>, <<Cbor_from_Tag(TagValue(U64(1)))>>,
     <<Cbor_from_Tag(Identifier(Major0(Tiny(1), U64(1))))>>,
     <<Cbor_from_Tag(Identifier(Major0(Tiny(2), U64(2))))>>,
     <<Cbor_from_Tag(Identifier(Major0(InfoU8, U64(2))))>>}

MsgNames ==
    {<<>>, <<Major0(Tiny(2), U64(2))>>}
        \cup {<<Major3(Tiny(1), <<c>>)>> : c \in {65, 66, 67, 90, 255}}

MsgArgs ==
    SeqsUpTo({Major0(Tiny(7), U64(7)), Major3(Tiny(1), <<97>>), Major2(Tiny(1), <<255>>)},
             MaxArgs)

Msgs ==
    {Major4(Info_from_u64(U64(Len(l))), l) :
        l \in {i \o n \o a : i \in MsgIds, n \in MsgNames, a \in MsgArgs}}
        \cup {Major7(Tiny(22), Null)}

-----------------------------------------------------------------------------
(* Byte streams handed to decode.                                          *)

\* The bytes a Vec<u8> writer holds after v.encode.
Encoded(v) == Cbor_encode(v, VecWriter).w.buf

\* A number below 2^31 in k big-endian bytes.
BE(n, k) == SubSeq(U64(n), 9 - k, 8)

Tails == {<<>>, <<1>>, <<255>>}

\* One item: a header of the given major and info code, the additional value
\* mag in the width of the code, and what a well-formed item of that major
\* holds after it: mag bytes of a string, mag items of an array, mag pairs
\* of a map, the nested value of tag 39.
HeaderMags(major, code) ==
    IF code <= 23 THEN {code}
    ELSE IF code >= 28 THEN {0}
    ELSE IF major = 6 THEN {0, 2, 24, 39}
    ELSE {0, 2, 24}

HeaderInputs ==
    UNION {{[kind |-> "header", major |-> h[1], code |-> h[2], mag |-> m, tail |-> t] :
                m \in HeaderMags(h[1], h[2]), t \in Tails} :
           h \in (0..7) \X (0..31)}

HeaderPayload(major, mag) ==
    CASE major \in {2, 3} -> Fill(97, mag)
      [] major = 4 -> Concat([i \in 1..mag |-> <<1>>])
      [] major = 5 -> Concat([i \in 1..mag |-> <<1, 2>>])
      [] major = 6 /\ mag = 39 -> <<130, 1, 2>>
      [] OTHER -> <<>>

HeaderItem(h) ==
    <<h.major * 32 + h.code>>
        \o (IF h.code \in 24..27 THEN BE(h.mag, AddnlWidth(Info_try_from_u8(h.code).val)) ELSE <<>>)
        \o HeaderPayload(h.major, h.mag)

\* An indefinite-length string: the header, definite-length chunks of the
\* same major, a Break.
ChunkPayloads == {<<>>, <<1, 2>>, <<3, 4, 5>>}

ChunkInputs ==
    [kind : {"chunks"}, major : {2, 3}, items : SeqsUpTo(ChunkPayloads, MaxChunks), tail : Tails]

\* An indefinite-length string whose items are of any shape: a definite
\* chunk of the same major type ("same"), one of the other string type
\* ("other"), a number, and an indefinite-length string of the same major
\* type with one chunk ("nested").
ChunkShapes == {"same", "other", "number", "nested"}

MixedInputs ==
    [kind : {"mixed"}, major : {2, 3}, items : SeqsUpTo(ChunkShapes, MaxItems), tail : {<<>>}]

ShapeBytes(major, shape) ==
    CASE shape = "same" -> <<major * 32 + 1, 97>>
      [] shape = "other" -> <<(5 - major) * 32 + 1, 97>>
      [] shape = "number" -> <<1>>
      [] OTHER -> <<major * 32 + 31, major * 32 + 1, 98, 255>>

\* An indefinite-length array: the header, items, a Break.
ItemValues == {Major0(Tiny(1), U64(1)), Major3(Tiny(1), <<97>>), Major4(Tiny(0), <<>>)}

ItemInputs ==
    [kind : {"items"}, major : {4}, items : SeqsUpTo(ItemValues, MaxChunks), tail : Tails]

\* An indefinite-length map: the header, (key, value) pairs, a Break.
PairValues ==
    {KeyU64(U64(1)), KeyText(<<97>>)} \X {Major0(Tiny(2), U64(2)), Major4(Tiny(0), <<>>)}

PairInputs ==
    [kind : {"pairs"}, major : {5}, items : SeqsUpTo(PairValues, MaxChunks), tail : Tails]

\* A map of one pair, definite or indefinite, whose item in key position is
\* any value, followed by the value items given (none or one) and, when
\* indefinite, a Break.
KeyItems ==
    {Major4(Tiny(0), <<>>), Major5(Tiny(0), <<>>), Cbor_from_Tag(TagValue(U64(7))),
     Major7(Tiny(22), Null), Major3(Tiny(1), <<255>>),
     Major0(Tiny(1), U64(1)), Major3(Tiny(1), <<97>>), Major7(Tiny(20), SvTrue),
     Major7(Indefinite, Break)}

KeyedInputs ==
    [kind : {"keyed"}, major : {5}, indef : BOOLEAN, key : KeyItems,
     items : {<<>>, <<Major0(Tiny(2), U64(2))>>}, tail : Tails]

KeyedStream(c) ==
    <<IF c.indef THEN 191 ELSE 161>>
        \o Encoded(c.key)
        \o Concat([i \in 1..Len(c.items) |-> Encoded(c.items[i])])
        \o (IF c.indef THEN <<255>> ELSE <<>>)

\* The bytes of the items of an indefinite-length stream.
IndefItem(c, x) ==
    CASE c.kind = "chunks" -> <<c.major * 32 + Len(x)>> \o x
      [] c.kind = "mixed" -> ShapeBytes(c.major, x)
      [] c.kind = "items" -> Encoded(x)
      [] OTHER -> Encoded(Key_into_cbor(x[1]).val) \o Encoded(x[2])

\* The stream up to and with the Break that ends it.
IndefItemBytes(c) == Concat([i \in 1..Len(c.items) |-> IndefItem(c, c.items[i])])
IndefStream(c) == <<c.major * 32 + 31>> \o IndefItemBytes(c) \o <<255>>

\* The encoding of a value cut off after its first keep bytes: a reader that
\* runs out in the middle of the item.
CutInputs(S) ==
    UNION {{[kind |-> "cut", val |-> v, keep |-> k, tail |-> <<>>] :
                k \in 0..(Len(Encoded(v)) - 1)} : v \in S}

CutStream(c) == SubSeq(Encoded(c.val), 1, c.keep)

StreamOf(c) ==
    (CASE c.kind = "header" -> HeaderItem(c)
       [] c.kind = "keyed" -> KeyedStream(c)
       [] c.kind = "cut" -> CutStream(c)
       [] OTHER -> IndefStream(c)) \o c.tail

-----------------------------------------------------------------------------
(* The codec driver: one value is encoded and the bytes decoded again, or  *)
(* one byte stream is decoded.                                             *)

Builds == {"debug", "release"}

NoRes == [st |-> "None"]
NoSrc == [kind |-> "none"]
NoChain == [kind |-> "none"]
NoWalk == [st |-> "None"]
NoNat == [ty |-> "none"]
NoDecl == [kind |-> "none"]
NoEntry == [kind |-> "none"]

ConvIdle == nat = NoNat /\ conv = NoRes /\ back = NoRes
DeriveIdle == decl = NoDecl /\ msg = NoVal /\ made = NoRes
NoCutoff == [kind |-> "none"]

DbIdle ==
    /\ one = NoEntry /\ two = NoEntry /\ ops1 = <<>> /\ ops2 = <<>> /\ merged = NoEntry
    /\ cutoff = NoCutoff /\ purged = NoRes
ThreadIdle ==
    /\ chn = NoRes /\ srv = NoRes /\ mq = <<>> /\ txs = {}
    /\ cls = <<>> /\ rch = <<>> /\ own = NoRes

ExtIdle == ConvIdle /\ DeriveIdle /\ DbIdle /\ ThreadIdle

InitValue ==
    /\ ExtIdle
    /\ pc = "value"
    /\ build \in Builds
    /\ val \in EncodeInputs
    /\ wr = VecWriter /\ encRes = NoRes
    /\ src = NoSrc /\ rd = <<>> /\ decRes = NoRes
    /\ keys = <<>> /\ cmpRes = NoRes
    /\ chain = NoChain /\ wk = NoWalk

InitStream ==
    /\ ExtIdle
    /\ pc = "stream"
    /\ build \in Builds
    /\ \/ src \in HeaderInputs
       \/ src \in ChunkInputs
       \/ src \in ItemInputs
       \/ src \in PairInputs
       \/ src \in KeyedInputs
       \/ src \in MixedInputs
    /\ rd = StreamOf(src)
    /\ val = NoVal /\ wr = VecWriter /\ encRes = NoRes
    /\ decRes = NoRes
    /\ keys = <<>> /\ cmpRes = NoRes
    /\ chain = NoChain /\ wk = NoWalk

Init == InitValue \/ InitStream

\* val.encode(&mut buf) on a fresh Vec<u8>.
Encode ==
    /\ pc = "value"
    /\ \E r \in {Cbor_encode(val, wr)} :
          /\ encRes' = [st |-> r.st, n |-> r.n]
          /\ wr' = r.w
    /\ pc' = "encoded"
    /\ UNCHANGED <<build, val, src, rd, decRes, keys, cmpRes, chain, wk>>
    /\ UNCHANGED ext

\* Cbor::decode(&mut buf.as_slice()) on the bytes just written.
DecodeWritten ==
    /\ pc = "encoded"
    /\ IsOk(encRes)
    /\ rd' = wr.buf
    /\ decRes' = Cbor_decode(wr.buf)
    /\ pc' = "roundtrip"
    /\ UNCHANGED <<build, val, wr, encRes, src, keys, cmpRes, chain, wk>>
    /\ UNCHANGED ext

\* Cbor::decode on a given stream.
DecodeStream ==
    /\ pc = "stream"
    /\ decRes' = Cbor_decode(rd)
    /\ pc' = "decoded"
    /\ UNCHANGED <<build, val, wr, encRes, src, rd, keys, cmpRes, chain, wk>>
    /\ UNCHANGED ext

Next == Encode \/ DecodeWritten \/ DecodeStream

Spec == Init /\ [][Next]_vars

-----------------------------------------------------------------------------
(* The Key driver: two keys are compared both ways with cmp and with ==.   *)

InitKeys ==
    /\ ExtIdle
    /\ pc = "keys"
    /\ build \in Builds
    /\ keys \in Keys \X Keys
    /\ cmpRes = NoRes
    /\ val = NoVal /\ wr = VecWriter /\ encRes = NoRes
    /\ src = NoSrc /\ rd = <<>> /\ decRes = NoRes
    /\ chain = NoChain /\ wk = NoWalk

\* a.cmp(&b), b.cmp(&a), a == b, b == a.
Compare ==
    /\ pc = "keys"
    /\ cmpRes' = [st |-> "Ok",
                  ab |-> Key_cmp(keys[1], keys[2]), ba |-> Key_cmp(keys[2], keys[1]),
                  eq |-> Key_eq(keys[1], keys[2]), qe |-> Key_eq(keys[2], keys[1])]
    /\ pc' = "compared"
    /\ UNCHANGED <<build, val, wr, encRes, src, rd, decRes, keys, chain, wk>>
    /\ UNCHANGED ext

SpecKey == InitKeys /\ [][Compare]_vars

-----------------------------------------------------------------------------
(* The depth walker.  do_encode and do_decode recurse once per nesting     *)
(* level; a value (or a stream) nested RECURSION_LIMIT levels deep is not  *)
(* evaluated as one expression but walked one call at a time.  A chain is  *)
(* len values, each but the last holding the next one as the item of a     *)
(* one-item array, as the value of a one-pair map, or as the value of an   *)
(* Identifier tag; wk is the frame of the innermost call made so far.      *)

Chains ==
    [kind : {"array", "map", "tag"},
     len : (RECURSION_LIMIT - 1)..(RECURSION_LIMIT + 1 + MaxExtra)]

InitChain ==
    /\ ExtIdle
    /\ pc = "chain"
    /\ build \in Builds
    /\ chain \in Chains
    /\ wk \in [st : {"Run"}, op : {"encode", "decode"}, level : {1}, depth : {1}]
    /\ val = NoVal /\ wr = VecWriter /\ encRes = NoRes
    /\ src = NoSrc /\ rd = <<>> /\ decRes = NoRes
    /\ keys = <<>> /\ cmpRes = NoRes

\* One call of do_encode (do_decode) on the value (the item) at wk.level: the
\* guard fails the whole call chain; the innermost value is a leaf and
\* returns Ok, which every caller hands on; any other value makes the next
\* call, with depth + 1 for an item and from Cbor::encode / Cbor::decode for
\* the value of a tag.
Descend ==
    /\ pc = "chain"
    /\ wk.st = "Run"
    /\ wk' = IF DepthExceeded(wk.depth) THEN [wk EXCEPT !.st = "FailCbor"]
             ELSE IF wk.level = chain.len THEN [wk EXCEPT !.st = "Ok"]
             ELSE [wk EXCEPT !.level = @ + 1,
                             !.depth = IF chain.kind = "tag" THEN TagValueDepth
                                       ELSE ItemDepth(@)]
    /\ UNCHANGED <<pc, build, val, wr, encRes, src, rd, decRes, keys, cmpRes, chain>>
    /\ UNCHANGED ext

SpecDepth == InitChain /\ [][Descend]_vars

-----------------------------------------------------------------------------
(* The conversion driver: a native value is converted by into_cbor, and    *)
(* the Value is converted back by from_cbor of the same type or handed to  *)
(* Cbor::into_bytes.                                                        *)

CodecIdle ==
    /\ val = NoVal /\ wr = VecWriter /\ encRes = NoRes
    /\ src = NoSrc /\ rd = <<>> /\ decRes = NoRes
    /\ keys = <<>> /\ cmpRes = NoRes
    /\ chain = NoChain /\ wk = NoWalk

\* The types with an impl FromCbor.
HasFromCbor(x) ==
    IF x.ty = "option" THEN x.elem \notin {"simple", "slice", "bytes"}
    ELSE x.ty \notin {"simple", "slice", "bytes"}

InitNative ==
    /\ pc = "native"
    /\ build \in Builds
    /\ nat \in Natives
    /\ conv = NoRes /\ back = NoRes
    /\ CodecIdle /\ DeriveIdle /\ DbIdle /\ ThreadIdle

\* nat.into_cbor(), or Cbor::bytes_into_cbor(nat).
IntoCbor ==
    /\ pc = "native"
    /\ conv' = Native_into_cbor(nat)
    /\ pc' = "converted"
    /\ UNCHANGED <<build, nat, back>>
    /\ UNCHANGED <<codec, derived, dbs, ths>>

\* T::from_cbor(val) on the Value into_cbor returned, T the type of nat.
FromCbor ==
    /\ pc = "converted"
    /\ IsOk(conv)
    /\ HasFromCbor(nat)
    /\ back' = Native_from_cbor(nat, conv.val)
    /\ pc' = "restored"
    /\ UNCHANGED <<build, nat, conv>>
    /\ UNCHANGED <<codec, derived, dbs, ths>>

\* val.into_bytes() on the Value into_cbor returned.
IntoBytes ==
    /\ pc = "converted"
    /\ IsOk(conv)
    /\ back' = Cbor_into_bytes(conv.val)
    /\ pc' = "bytes"
    /\ UNCHANGED <<build, nat, conv>>
    /\ UNCHANGED <<codec, derived, dbs, ths>>

-----------------------------------------------------------------------------
(* The I/O driver: a value is encoded into a writer with room for MaxCap   *)
(* bytes at most, or decoded from a reader that ends inside the item.      *)

IOValues == Leaves \cup Inner \cup Scalars

Writers ==
    {VecWriter} \cup {SliceWriter(c) : c \in 0..MaxCap}
        \cup {FailingWriter(c) : c \in 0..MaxCap}

InitWriter ==
    /\ ExtIdle
    /\ pc = "value"
    /\ build \in Builds
    /\ val \in IOValues
    /\ wr \in Writers /\ encRes = NoRes
    /\ src = NoSrc /\ rd = <<>> /\ decRes = NoRes
    /\ keys = <<>> /\ cmpRes = NoRes
    /\ chain = NoChain /\ wk = NoWalk

InitReader ==
    /\ ExtIdle
    /\ pc = "stream"
    /\ build \in Builds
    /\ src \in CutInputs(IOValues)
    /\ rd = StreamOf(src)
    /\ val = NoVal /\ wr = VecWriter /\ encRes = NoRes
    /\ decRes = NoRes
    /\ keys = <<>> /\ cmpRes = NoRes
    /\ chain = NoChain /\ wk = NoWalk

InitIO == InitWriter \/ InitReader

SpecIO == InitIO /\ [][Next]_vars

\* The magnitudes of the major-1 Values handed to from_cbor of a signed type.
Major1Mags == {U64(0), U64(127), U64(128), I64_MAX, I64_MIN_MAG, U64_MAX}

\* T::from_cbor(Cbor::Major1(m.into(), m)), T the signed type of nat.
FromMajor1 ==
    /\ pc = "native"
    /\ nat.ty \in SignedTypes
    /\ \E m \in Major1Mags :
          /\ conv' = [st |-> "Ok", val |-> Major1(Info_from_u64(m), m)]
          /\ back' = Native_from_cbor(nat, Major1(Info_from_u64(m), m))
    /\ pc' = "negative"
    /\ UNCHANGED <<build, nat>>
    /\ UNCHANGED <<codec, derived, dbs, ths>>

NextConv == IntoCbor \/ FromCbor \/ IntoBytes \/ FromMajor1

SpecConv == InitNative /\ [][NextConv]_vars

-----------------------------------------------------------------------------
(* The derive driver: a Cbor value is handed to the from_cbor generated    *)
(* for a type.                                                             *)

InitMsg ==
    /\ pc = "msg"
    /\ build \in Builds
    /\ decl \in Decls
    /\ msg \in Msgs
    /\ made = NoRes
    /\ CodecIdle /\ ConvIdle /\ DbIdle /\ ThreadIdle

DerivedFromCbor ==
    /\ pc = "msg"
    /\ made' = Derived_from_cbor(decl, msg)
    /\ pc' = "made"
    /\ UNCHANGED <<build, decl, msg>>
    /\ UNCHANGED <<codec, convs, dbs, ths>>

SpecDerive == InitMsg /\ [][DerivedFromCbor]_vars

-----------------------------------------------------------------------------
(* The db driver: two entries are created, one and then two take inserts   *)
(* and deletes, and one is merged with two.                                *)

Create(key, v) ==
    IF v.t = "U" THEN Entry_new(key, v.value, v.seqno) ELSE Entry_new_deleted(key, v.seqno)

\* db.rs has no arithmetic: the build makes no difference to it.
InitDb ==
    /\ pc = "db"
    /\ build = "debug"
    /\ \E v \in Versions : one = Create(10, v) /\ ops1 = <<v>>
    /\ \E key \in EntryKeys, v \in Versions : two = Create(key, v) /\ ops2 = <<v>>
    /\ merged = NoEntry /\ cutoff = NoCutoff /\ purged = NoRes
    /\ CodecIdle /\ ConvIdle /\ DeriveIdle /\ ThreadIdle

OpsLeft == Len(ops1) + Len(ops2) < MaxOps + 2

\* one.insert(value, seqno), two.insert(value, seqno).
Insert ==
    /\ pc = "db"
    /\ OpsLeft
    /\ \E value \in EntryValues, seqno \in Seqnos :
          \/ /\ Len(ops2) = 1
             /\ one' = Entry_insert(one, value, seqno)
             /\ ops1' = Append(ops1, ValueU(value, seqno))
             /\ UNCHANGED <<two, ops2>>
          \/ /\ two' = Entry_insert(two, value, seqno)
             /\ ops2' = Append(ops2, ValueU(value, seqno))
             /\ UNCHANGED <<one, ops1>>
    /\ UNCHANGED <<pc, build, merged, cutoff, purged>>
    /\ UNCHANGED <<codec, convs, derived, ths>>

\* one.delete(seqno), two.delete(seqno).
Delete ==
    /\ pc = "db"
    /\ OpsLeft
    /\ \E seqno \in Seqnos :
          \/ /\ Len(ops2) = 1
             /\ one' = Entry_delete(one, seqno)
             /\ ops1' = Append(ops1, ValueD(seqno))
             /\ UNCHANGED <<two, ops2>>
          \/ /\ two' = Entry_delete(two, seqno)
             /\ ops2' = Append(ops2, ValueD(seqno))
             /\ UNCHANGED <<one, ops1>>
    /\ UNCHANGED <<pc, build, merged, cutoff, purged>>
    /\ UNCHANGED <<codec, convs, derived, ths>>

\* one.merge(&two).
Merge ==
    /\ pc = "db"
    /\ merged' = Entry_merge(one, two)
    /\ pc' = "merged"
    /\ UNCHANGED <<build, one, two, ops1, ops2, cutoff, purged>>
    /\ UNCHANGED <<codec, convs, derived, ths>>

NextDb == Insert \/ Delete \/ Merge

SpecDb == InitDb /\ [][NextDb]_vars

-----------------------------------------------------------------------------
(* The purge driver: an entry is created, takes inserts and deletes, and   *)
(* is purged with a cutoff.                                                *)

InitPurge ==
    /\ pc = "entry"
    /\ build = "debug"
    /\ \E v \in PurgeVersions : one = Create(10, v) /\ ops1 = <<v>>
    /\ two = NoEntry /\ ops2 = <<>> /\ merged = NoEntry
    /\ cutoff = NoCutoff /\ purged = NoRes
    /\ CodecIdle /\ ConvIdle /\ DeriveIdle /\ ThreadIdle

\* one.insert(value, seqno).
InsertOne ==
    /\ pc = "entry"
    /\ Len(ops1) < MaxOps + 1
    /\ \E value \in EntryValues, seqno \in PurgeSeqnos :
          /\ one' = Entry_insert(one, value, seqno)
          /\ ops1' = Append(ops1, ValueU(value, seqno))
    /\ UNCHANGED <<pc, build, two, ops2, merged, cutoff, purged>>
    /\ UNCHANGED <<codec, convs, derived, ths>>

\* one.delete(seqno).
DeleteOne ==
    /\ pc = "entry"
    /\ Len(ops1) < MaxOps + 1
    /\ \E seqno \in PurgeSeqnos :
          /\ one' = Entry_delete(one, seqno)
          /\ ops1' = Append(ops1, ValueD(seqno))
    /\ UNCHANGED <<pc, build, two, ops2, merged, cutoff, purged>>
    /\ UNCHANGED <<codec, convs, derived, ths>>

\* one.purge(cutoff); one keeps the entry as it was handed over.
Purge ==
    /\ pc = "entry"
    /\ \E c \in Cutoffs :
          /\ cutoff' = c
          /\ purged' = Entry_purge(one, c)
    /\ pc' = "purged"
    /\ UNCHANGED <<build, one, two, ops1, ops2, merged>>
    /\ UNCHANGED <<codec, convs, derived, ths>>

NextPurge == InsertOne \/ DeleteOne \/ Purge

SpecPurge == InitPurge /\ [][NextPurge]_vars

-----------------------------------------------------------------------------
(* The gen-server thread (src/src/thread.rs).  A message in the channel is *)
(* [q |-> request, stx |-> c]: c is the client whose request() made the    *)
(* reply channel, 0 for None (a post).  A Result is [st, val].             *)

\* Tx::N(mpsc::Sender) of Thread::new and Tx::S(mpsc::SyncSender) of
\* Thread::new_sync(channel_size).
Tx_N == [kind |-> "N", size |-> 0]
Tx_S(channel_size) == [kind |-> "S", size |-> channel_size]

\* The Thread's own Tx (Inner::tx) among the holders of a Tx.
InnerTx == 0

NoReply == [st |-> "None", val |-> 0]
IPCFail == [st |-> "IPCFail", val |-> 0]
ThreadFail == [st |-> "ThreadFail", val |-> 0]

\* Whether the main loop has returned or unwound: its Rx is dropped then.
Finished(s) == s.st \in {"exited", "panicked"}

\* tx.send(m) on the channel ch with the messages q in it: an error once
\* the Rx is dropped; a SyncSender waits while the buffer is full.
send(ch, s, q) ==
    IF Finished(s) THEN "Err"
    ELSE IF ch.kind = "S" /\ Len(q) >= ch.size THEN "Block"
    ELSE "Ok"

\* The message of Tx::post: (msg, None).
post_msg(c) == [q |-> c, stx |-> 0]

\* A mutant of request_msg: the reply sender of the first client goes with
\* every request.
request_msg_Mut(c) == [q |-> c, stx |-> 1]

\* The message of Tx::request: (request, Some(stx)), stx the sender of the
\* channel made in this call.
request_msg(c) == [q |-> c, stx |-> c]

\* srx.recv() on a reply channel: the oldest response; an error when the
\* buffer is empty and the sender is dropped; else it waits.
recv(r) ==
    IF r.buf # <<>> THEN [st |-> "Ok", val |-> Head(r.buf)]
    ELSE IF ~r.stx THEN IPCFail
    ELSE [st |-> "Block", val |-> 0]

\* A mutant of join: it returns while the main loop runs.
join_Mut(s) ==
    IF s.st = "panicked" THEN ThreadFail ELSE [st |-> "Ok", val |-> s.out]

\* self.handle.join() in Inner::close_wait: waits for the main loop; Ok(val)
\* with what the loop returned, ThreadFail when it unwound.
join(s) ==
    IF ~Finished(s) THEN [st |-> "Block", val |-> 0]
    ELSE IF s.st = "panicked" THEN ThreadFail
    ELSE [st |-> "Ok", val |-> s.out]

\* The reply channels after the reply senders of the messages ms are dropped.
DropSenders(r, ms) ==
    [c \in DOMAIN r |->
        IF \E i \in 1..Len(ms) : ms[i].stx = c THEN [r[c] EXCEPT !.stx = FALSE] ELSE r[c]]

\* The response the main loop computes for the request q.
Response(q) == q + MaxClients

-----------------------------------------------------------------------------
(* The thread driver: a Thread is made, Tx clones go to clients that post  *)
(* or request once each, the main loop serves, and the Thread is closed or *)
(* dropped.  The main loop is the caller's: it receives, then replies,     *)
(* drops the reply sender, returns or unwinds; srv.heeds tells whether it  *)
(* returns when its Rx reports disconnect; what it returns (srv.out) is    *)
(* the number of messages it received.                                     *)

Clients == 1..MaxClients
\* The channel of new, and that of new_sync with room for one message fewer
\* than there are clients, so that a send can wait.
Channels == {Tx_N, Tx_S(MaxClients - 1)}

InitThread ==
    /\ pc = "thread"
    /\ build = "debug"
    /\ CodecIdle /\ ConvIdle /\ DeriveIdle /\ DbIdle
    /\ chn \in Channels
    /\ \E h \in BOOLEAN :
          srv = [st |-> "recv", q |-> 0, stx |-> 0, heeds |-> h, out |-> 0]
    /\ mq = <<>>
    /\ txs = {InnerTx}
    /\ cls = [c \in Clients |-> [st |-> "none", call |-> "none", res |-> NoReply]]
    /\ rch = [c \in Clients |-> [buf |-> <<>>, stx |-> FALSE, replied |-> FALSE]]
    /\ own = [st |-> "holding", how |-> "none", ret |-> NoReply]

\* thread.clone_tx(), or tx.clone() on a Tx some client holds.
CloneTx(c) ==
    /\ pc = "thread"
    /\ cls[c].st = "none"
    /\ own.st = "holding" \/ txs \ {InnerTx} # {}
    /\ cls' = [cls EXCEPT ![c].st = "idle"]
    /\ txs' = txs \cup {c}
    /\ UNCHANGED <<pc, build, chn, srv, mq, rch, own>>
    /\ UNCHANGED <<codec, convs, derived, dbs>>

\* A client's Tx goes out of scope, and with it what its call returned.
DropTx(c) ==
    /\ pc = "thread"
    /\ cls[c].st \in {"idle", "done"}
    /\ cls' = [cls EXCEPT ![c] = [st |-> "gone", call |-> "none", res |-> NoReply]]
    /\ rch' = [rch EXCEPT ![c] = [buf |-> <<>>, stx |-> FALSE, replied |-> FALSE]]
    /\ txs' = txs \ {c}
    /\ UNCHANGED <<pc, build, chn, srv, mq, own>>
    /\ UNCHANGED <<codec, convs, derived, dbs>>

\* tx.post(msg), once the send does not wait.
Post(c) ==
    /\ pc = "thread"
    /\ cls[c].st = "idle"
    /\ send(chn, srv, mq) # "Block"
    /\ IF send(chn, srv, mq) = "Ok"
       THEN /\ mq' = Append(mq, post_msg(c))
            /\ cls' = [cls EXCEPT ![c] = [st |-> "done", call |-> "post",
                                          res |-> [st |-> "Ok", val |-> 0]]]
       ELSE /\ mq' = mq
            /\ cls' = [cls EXCEPT ![c] = [st |-> "done", call |-> "post", res |-> IPCFail]]
    /\ UNCHANGED <<pc, build, chn, srv, txs, rch, own>>
    /\ UNCHANGED <<codec, convs, derived, dbs>>

\* tx.request(request) up to the send: the reply channel is made.
Request(c) ==
    /\ pc = "thread"
    /\ cls[c].st = "idle"
    /\ cls' = [cls EXCEPT ![c] = [st |-> "sending", call |-> "request", res |-> NoReply]]
    /\ rch' = [rch EXCEPT ![c] = [buf |-> <<>>, stx |-> TRUE, replied |-> FALSE]]
    /\ UNCHANGED <<pc, build, chn, srv, mq, txs, own>>
    /\ UNCHANGED <<codec, convs, derived, dbs>>

\* The send of tx.request: the message goes into the channel, or the send
\* fails, the message is dropped with its reply sender and request returns
\* IPCFail.
Send(c) ==
    /\ pc = "thread"
    /\ cls[c].st = "sending"
    /\ send(chn, srv, mq) # "Block"
    /\ IF send(chn, srv, mq) = "Ok"
       THEN /\ mq' = Append(mq, request_msg(c))
            /\ cls' = [cls EXCEPT ![c].st = "waiting"]
            /\ rch' = rch
       ELSE /\ mq' = mq
            /\ cls' = [cls EXCEPT ![c] = [st |-> "done", call |-> "request", res |-> IPCFail]]
            /\ rch' = [rch EXCEPT ![c].stx = FALSE]
    /\ UNCHANGED <<pc, build, chn, srv, txs, own>>
    /\ UNCHANGED <<codec, convs, derived, dbs>>

\* srx.recv() of tx.request returns.
Recv(c) ==
    /\ pc = "thread"
    /\ cls[c].st = "waiting"
    /\ recv(rch[c]).st # "Block"
    /\ cls' = [cls EXCEPT ![c] = [st |-> "done", call |-> "request", res |-> recv(rch[c])]]
    /\ rch' = [rch EXCEPT ![c].buf = IF @ = <<>> THEN @ ELSE Tail(@)]
    /\ UNCHANGED <<pc, build, chn, srv, mq, txs, own>>
    /\ UNCHANGED <<codec, convs, derived, dbs>>

\* The main loop: rx.recv() returns a message.
SrvRecv ==
    /\ pc = "thread"
    /\ srv.st = "recv"
    /\ mq # <<>>
    /\ srv' = [srv EXCEPT !.st = "handle", !.q = Head(mq).q, !.stx = Head(mq).stx,
                          !.out = @ + 1]
    /\ mq' = Tail(mq)
    /\ UNCHANGED <<pc, build, chn, txs, cls, rch, own>>
    /\ UNCHANGED <<codec, convs, derived, dbs>>

\* The main loop: rx.recv() reports disconnect (no message, every Tx
\* dropped) and the loop returns.
SrvDisconnect ==
    /\ pc = "thread"
    /\ srv.st = "recv"
    /\ mq = <<>> /\ txs = {}
    /\ srv.heeds
    /\ srv' = [srv EXCEPT !.st = "exited"]
    /\ UNCHANGED <<pc, build, chn, mq, txs, cls, rch, own>>
    /\ UNCHANGED <<codec, convs, derived, dbs>>

\* The main loop: stx.send(response) on the reply sender of the request,
\* which is dropped then.
SrvReply ==
    /\ pc = "thread"
    /\ srv.st = "handle"
    /\ srv.stx # 0
    /\ rch' = [rch EXCEPT ![srv.stx] = [buf |-> Append(@.buf, Response(srv.q)),
                                        stx |-> FALSE, replied |-> TRUE]]
    /\ srv' = [srv EXCEPT !.st = "recv", !.q = 0, !.stx = 0]
    /\ UNCHANGED <<pc, build, chn, mq, txs, cls, own>>
    /\ UNCHANGED <<codec, convs, derived, dbs>>

\* The main loop: the message is done with, no reply; a reply sender that
\* came with it is dropped.
SrvDropReply ==
    /\ pc = "thread"
    /\ srv.st = "handle"
    /\ rch' = DropSenders(rch, <<srv>>)
    /\ srv' = [srv EXCEPT !.st = "recv", !.q = 0, !.stx = 0]
    /\ UNCHANGED <<pc, build, chn, mq, txs, cls, own>>
    /\ UNCHANGED <<codec, convs, derived, dbs>>

\* The main loop returns or unwinds on a message: its Rx is dropped, and
\* with it the messages in the channel and their reply senders.
SrvExit ==
    /\ pc = "thread"
    /\ srv.st = "handle"
    /\ \E how \in {"exited", "panicked"} : srv' = [srv EXCEPT !.st = how]
    /\ rch' = DropSenders(rch, <<srv>> \o mq)
    /\ mq' = <<>>
    /\ UNCHANGED <<pc, build, chn, txs, cls, own>>
    /\ UNCHANGED <<codec, convs, derived, dbs>>

\* thread.close_wait(), or the Thread is dropped, up to the join:
\* mem::drop(self.tx).
CloseWait ==
    /\ pc = "thread"
    /\ own.st = "holding"
    /\ \E how \in {"close_wait", "drop"} : own' = [own EXCEPT !.st = "joining", !.how = how]
    /\ txs' = txs \ {InnerTx}
    /\ UNCHANGED <<pc, build, chn, srv, mq, cls, rch>>
    /\ UNCHANGED <<codec, convs, derived, dbs>>

\* self.handle.join() returns: close_wait returns its result, drop ignores
\* it (inner.close_wait().ok()).
Join ==
    /\ pc = "thread"
    /\ own.st = "joining"
    /\ join(srv).st # "Block"
    /\ own' = [own EXCEPT !.st = "returned",
                          !.ret = IF own.how = "drop" THEN NoReply ELSE join(srv)]
    /\ UNCHANGED <<pc, build, chn, srv, mq, txs, cls, rch>>
    /\ UNCHANGED <<codec, convs, derived, dbs>>

MainLoop == SrvRecv \/ SrvDisconnect \/ SrvReply \/ SrvDropReply \/ SrvExit

NextThread ==
    \/ \E c \in Clients : CloneTx(c) \/ DropTx(c) \/ Post(c) \/ Request(c) \/ Send(c) \/ Recv(c)
    \/ MainLoop
    \/ CloseWait
    \/ Join

SpecThread == InitThread /\ [][NextThread]_vars

\* Each thread is scheduled: a call that can return does, and the main loop
\* takes a message that waits, finishes with a message it took, and sees a
\* disconnect.
SpecThreadLive ==
    /\ SpecThread
    /\ WF_vars(Join)
    /\ WF_vars(SrvRecv)
    /\ WF_vars(SrvDisconnect)
    /\ WF_vars(SrvReply \/ SrvDropReply \/ SrvExit)
    /\ \A c \in Clients : WF_vars(Send(c)) /\ WF_vars(Recv(c))

-----------------------------------------------------------------------------
(* Properties of the codec, checked under Spec, SpecKey and SpecDepth.     *)

\* The driver has made the encode call.
Encoded_ == pc \in {"encoded", "roundtrip"}

\* The bytes of the item a stream was put together from, without its tail.
ItemLen == Len(rd) - Len(src.tail)

\* C1: for every value the value model can construct (any variant, any Info,
\* any Tag, any Key), decoding the bytes encode wrote returns an equal value
\* and the byte count encode returned.
C1_RoundTrip ==
    pc = "roundtrip" =>
        (IsOk(decRes) /\ decRes.val = val /\ decRes.n = encRes.n)

\* C2: a chain nested exactly RECURSION_LIMIT levels deep encodes and decodes
\* successfully, and a chain nested deeper, whatever carries the nesting
\* (arrays, maps, Identifier tags), ends in an error of the guard.
C2_RecursionGuard ==
    (pc = "chain" /\ wk.st # "Run") =>
        (IF chain.len <= RECURSION_LIMIT THEN wk.st = "Ok" ELSE wk.st = "FailCbor")

\* The header of major with the magnitude m in the least width that holds
\* it: the byte major*32 + code, then 0, 1, 2, 4 or 8 big-endian bytes.
MinimalHeader(major, m) ==
    IF U64Le(m, U64(23)) THEN <<major * 32 + m[8]>>
    ELSE IF U64Le(m, U64(255)) THEN <<major * 32 + 24, m[8]>>
    ELSE IF U64Le(m, U64(65535)) THEN <<major * 32 + 25, m[7], m[8]>>
    ELSE IF U64Le(m, <<0, 0, 0, 0, 255, 255, 255, 255>>)
         THEN <<major * 32 + 26, m[5], m[6], m[7], m[8]>>
    ELSE <<major * 32 + 27>> \o m

\* The magnitude the header of a value carries: the number, the length, the
\* tag number.
HeaderMagnitude(v) ==
    CASE v.major \in {0, 1} -> v.val
      [] v.major \in 2..5 -> U64(Len(v.val))
      [] OTHER -> IF v.val.t = "Identifier" THEN U64(39) ELSE v.val.val

\* C3: for a value whose Info is the one Info::from gives its magnitude, the
\* encoder writes the header byte major*32 + info code and then the minimal
\* number of big-endian bytes of the magnitude (none up to 23, 1 up to 255,
\* 2 up to 65535, 4 up to 2^32-1, else 8); an integer is those bytes and
\* nothing else, so 23 is 0x17 and 24 is 0x18 0x18.
C3_MinimalWidth ==
    (Encoded_ /\ val.major \in 0..6 /\ val.info = Info_from_u64(HeaderMagnitude(val))) =>
        LET hdr == MinimalHeader(val.major, HeaderMagnitude(val)) IN
        /\ val.major \in {0, 1} => (IsOk(encRes) /\ wr.buf = hdr /\ encRes.n = Len(hdr))
        /\ IsOk(encRes) => SubSeq(wr.buf, 1, Len(hdr)) = hdr
        /\ val = Major0(Tiny(23), U64(23)) => wr.buf = <<23>>
        /\ val = Major0(InfoU8, U64(24)) => wr.buf = <<24, 24>>

\* Witness of C3: the unsigned 24 has been encoded as 0x18 0x18.
C3_Witness ==
    /\ pc = "encoded"
    /\ val.major = 0 /\ val.val = U64(24) /\ val.info = InfoU8
    /\ wr.buf = <<24, 24>>

\* The rank of a key's variant.
KeyRank(k) ==
    CASE k.t = "Bool" -> 1
      [] k.t \in {"N64", "U64"} -> 2
      [] k.t = "F32" -> 3
      [] k.t = "F64" -> 4
      [] k.t = "Bytes" -> 5
      [] OTHER -> 6

\* C4: Key comparison is a strict total order consistent with Key equality:
\* exactly one of a < b, a == b, a > b holds, b compares to a the other way
\* round, the order is transitive, and keys of different rank are ordered
\* Bool < integer < F32 < F64 < Bytes < Text, every N64 before every U64.
C4_KeyTotalOrder ==
    pc = "compared" =>
        LET a == keys[1]
            b == keys[2]
        IN  /\ cmpRes.ab \in {Less, Equal, Greater}
            /\ (cmpRes.ab = Equal) <=> cmpRes.eq
            /\ cmpRes.eq <=> cmpRes.qe
            /\ (cmpRes.ab = Less) <=> (cmpRes.ba = Greater)
            /\ (cmpRes.ab = Greater) <=> (cmpRes.ba = Less)
            /\ \A c \in Keys :
                  /\ (cmpRes.ab = Less /\ Key_cmp(b, c) = Less) => Key_cmp(a, c) = Less
                  /\ (cmpRes.ab = Less /\ Key_eq(b, c)) => Key_cmp(a, c) = Less
                  /\ (cmpRes.eq /\ Key_cmp(b, c) = Less) => Key_cmp(a, c) = Less
            /\ KeyRank(a) < KeyRank(b) => cmpRes.ab = Less
            /\ KeyRank(a) > KeyRank(b) => cmpRes.ab = Greater
            /\ (a.t = "N64" /\ b.t = "U64") => cmpRes.ab = Less

\* Witness of C4: an N64 that holds 5 has been compared with the U64 0 and
\* came first.
C4_Witness ==
    /\ pc = "compared"
    /\ keys = <<KeyN64(I64Pos(U64(5))), KeyU64(U64(0))>>
    /\ cmpRes.ab = Less /\ cmpRes.ba = Greater /\ ~cmpRes.eq

\* C5: an indefinite-length byte or text string made of definite-length
\* chunks and a Break decodes to one string, the concatenation of the chunk
\* payloads in arrival order, empty chunks included.
C5_IndefiniteChunks ==
    (pc = "decoded" /\ src.kind = "chunks") =>
        /\ IsOk(decRes)
        /\ decRes.val.major = src.major
        /\ decRes.val.info = Indefinite
        /\ decRes.val.val = Concat(src.items)

\* Witness of C5: chunks of lengths 2, 0, 3 were decoded to one 5-byte string.
C5_Witness ==
    /\ pc = "decoded" /\ src.kind = "chunks" /\ src.major = 2
    /\ src.items = <<<<1, 2>>, <<>>, <<3, 4, 5>>>>
    /\ IsOk(decRes) /\ decRes.val.val = <<1, 2, 3, 4, 5>>

\* C6: an indefinite-length map stream of the header, N (key, value) pairs
\* and a Break decodes, for every N >= 0, to the map of those N pairs in
\* arrival order, and no byte after the Break is read.
C6_IndefiniteMap ==
    (pc = "decoded" /\ src.kind = "pairs") =>
        /\ IsOk(decRes)
        /\ decRes.val.major = 5
        /\ decRes.val.val = src.items
        /\ decRes.pos = ItemLen

\* C7: the count decode returns with a value is the number of bytes it read
\* from the reader, the Break of an indefinite-length item included.
C7_CountIsBytesRead ==
    (pc \in {"decoded", "roundtrip"} /\ IsOk(decRes)) => decRes.n = decRes.pos

\* C8: an item whose header carries info code 28, 29 or 30 is rejected for
\* every major type; an item of major 0 to 6 with an info code 0..27 is
\* accepted in whatever width the code says, with that Info in the value,
\* and nothing after the item is read.
C8_ReservedInfoRejected ==
    (pc = "decoded" /\ src.kind = "header") =>
        /\ src.code \in 28..30 => (~IsOk(decRes) /\ decRes.val = NoVal)
        /\ (src.code \in 0..27 /\ src.major \in 0..6) =>
              /\ IsOk(decRes)
              /\ decRes.val.major = src.major
              /\ InfoCode(decRes.val.info) = src.code
              /\ decRes.pos = ItemLen

\* Witness of C8: an array header with the reserved code 29 was rejected.
C8_Witness ==
    /\ pc = "decoded" /\ src.kind = "header"
    /\ src.major = 4 /\ src.code = 29
    /\ decRes.st = "FailCbor"

\* C9: the simple-value codec rejects Unassigned, Undefined, Reserved24 and
\* F16 on encode, and an item of major 7 with info Tiny(0..19), Tiny(23),
\* U8, U16 or a reserved code on decode.
C9_SimpleValueCodec ==
    /\ (Encoded_ /\ val.major = 7
            /\ val.val.t \in {"Unassigned", "Undefined", "Reserved24", "F16"})
          => ~IsOk(encRes)
    /\ (pc = "decoded" /\ src.kind = "header" /\ src.major = 7
            /\ src.code \in (0..19) \cup {23, 24, 25, 28, 29, 30})
          => ~IsOk(decRes)

\* C10: encoding a tag writes its number as the additional value and, for an
\* Identifier only, the encoding of the nested value right after; decoding
\* an item of major 6 with the number 39 decodes one nested value and returns
\* Identifier(value), and any other number n returns the generic tag n and
\* reads nothing after the number.
C10_TagCodec ==
    /\ (Encoded_ /\ val.major = 6 /\ val.info = Info_from_u64(HeaderMagnitude(val))) =>
          /\ IsOk(encRes)
          /\ wr.buf = MinimalHeader(6, HeaderMagnitude(val))
                         \o (IF val.val.t = "Identifier" THEN Encoded(val.val.val) ELSE <<>>)
          /\ encRes.n = Len(wr.buf)
    /\ (pc = "decoded" /\ src.kind = "header" /\ src.major = 6 /\ src.code \in 0..27) =>
          /\ IsOk(decRes)
          /\ IF src.mag = 39
             THEN /\ decRes.val.val =
                        Identifier(Major4(Tiny(2), <<Major0(Tiny(1), U64(1)),
                                                     Major0(Tiny(2), U64(2))>>))
                  /\ decRes.pos = ItemLen
             ELSE /\ decRes.val.val = TagValue(U64(src.mag))
                  /\ decRes.pos = 1 + (IF src.code < 24 THEN 0 ELSE AddnlWidth(decRes.val.info))

\* Witness of C10: a stream with the tag 39, a nested array and a byte after
\* it was decoded to an Identifier, the byte left unread.
C10_Witness ==
    /\ pc = "decoded" /\ src.kind = "header"
    /\ src.major = 6 /\ src.mag = 39 /\ src.tail = <<1>>
    /\ IsOk(decRes) /\ decRes.val.val.t = "Identifier"
    /\ decRes.pos = Len(rd) - 1

\* The bytes of the pairs of a map, each key converted and encoded and its
\* value encoded after it, first pair first.
PairBytes(map) ==
    Concat([i \in 1..Len(map) |->
                Encoded(Key_into_cbor(map[i][1]).val) \o Encoded(map[i][2])])

\* C11: encoding a map writes its (key, value) pairs in the stored order,
\* neither sorted nor deduplicated, and decoding the definite-length map
\* written returns the pairs in the order of the stream, so the map decoded
\* holds the pairs of the map encoded in the same order (for keys whose
\* encoding converts back to a key).
C11_MapOrder ==
    (Encoded_ /\ val.major = 5 /\ val.info = Info_from_u64(U64(Len(val.val)))
        /\ \A i \in 1..Len(val.val) : IsOk(Key_into_cbor(val.val[i][1]))) =>
        /\ IsOk(encRes)
        /\ wr.buf = MinimalHeader(5, U64(Len(val.val))) \o PairBytes(val.val)
        /\ (pc = "roundtrip"
              /\ \A i \in 1..Len(val.val) :
                    IsOk(Key_from_cbor(Key_into_cbor(val.val[i][1]).val))) =>
              (IsOk(decRes) /\ decRes.val.val = val.val)

\* Witness of C11: a map whose Text key stands before its Bool key, with
\* the same value twice, came back from decode in that order.
C11_Witness ==
    /\ pc = "roundtrip" /\ val.major = 5
    /\ val.val = <<<<KeyText(<<97>>), Major0(Tiny(1), U64(1))>>,
                   <<KeyBool(TRUE), Major0(Tiny(1), U64(1))>>>>
    /\ IsOk(decRes) /\ decRes.val.val = val.val
    /\ wr.buf = <<162, 97, 97, 1, 244, 1>>

\* A value FromCbor for Key is specified to take: an integer, a byte string,
\* valid UTF-8 text, a boolean, an F32 or an F64.
KeyCapable(v) ==
    \/ v.major \in {0, 1, 2}
    \/ v.major = 3 /\ Utf8Valid(v.val)
    \/ v.major = 7 /\ v.val.t \in {"True", "False", "F32", "F64"}

\* C12: decoding a map, definite or indefinite, in which an item in key
\* position is not key-capable fails with an error for the whole decode: no
\* map is returned.
C12_NonKeyRejected ==
    (pc = "decoded" /\ src.kind = "keyed" /\ ~KeyCapable(src.key)) => ~IsOk(decRes)

\* C13: a signed primitive converts to major 0 when it is not negative and
\* to major 1 with the magnitude -(k+1) when it is negative k, under the
\* minimal header, and the Value is the one the Key path gives: Key::N64(k)
\* for a negative k, Key::U64 of the magnitude otherwise.
C13_SignedAsKey ==
    (pc = "converted" /\ nat.ty \in SignedTypes) =>
        /\ IsOk(conv)
        /\ IF nat.val.neg
           THEN /\ conv.val.major = 1
                /\ conv.val.val = WrappingDec(nat.val.mag)
                /\ Encoded(conv.val) = MinimalHeader(1, WrappingDec(nat.val.mag))
                /\ conv = Key_into_cbor(KeyN64(nat.val))
           ELSE /\ conv.val.major = 0
                /\ conv.val.val = nat.val.mag
                /\ Encoded(conv.val) = MinimalHeader(0, nat.val.mag)
                /\ conv = Key_into_cbor(KeyU64(nat.val.mag))

\* C14: into_cbor of a primitive number (the least value of a signed type
\* included), of a string and of a byte slice returns Ok.
C14_IntoCborTotal ==
    (pc = "converted" /\ nat.ty \in SignedTypes \cup UnsignedTypes \cup {"str", "slice"}) =>
        IsOk(conv)

IsNull(v) == v.major = 7 /\ v.val = Null

\* C15: None converts to Null; Some(x) converts to the very Value x
\* converts to, with no wrapper, so that Some(x) with x converting to Null
\* gives the Value and the bytes of None; and from_cbor of Null to an
\* Option<T> is None for every T.
C15_OptionNull ==
    /\ (pc = "converted" /\ nat.ty = "option") =>
          IF nat.val = <<>>
          THEN IsOk(conv) /\ IsNull(conv.val) /\ Encoded(conv.val) = <<246>>
          ELSE LET x == Native_into_cbor(nat.val[1])
                   none == Native_into_cbor(OptNone(nat.elem)) IN
               /\ conv = x
               /\ (IsOk(x) /\ IsNull(x.val)) =>
                     (conv = none /\ Encoded(conv.val) = Encoded(none.val))
    /\ (pc = "restored" /\ nat.ty = "option" /\ IsNull(conv.val)) =>
          back = [st |-> "Ok", val |-> <<>>]

\* Some(None) was converted, and came back as None.
C15_Witness ==
    /\ pc = "restored"
    /\ nat = OptSome(OptNone("u8"))
    /\ Encoded(conv.val) = <<246>>
    /\ back = [st |-> "Ok", val |-> <<>>]

\* C16: Cbor::bytes_into_cbor gives the major-2 byte string of the buffer,
\* the generic Vec<u8> conversion gives the major-4 array of its bytes as
\* major-0 integers; Cbor::into_bytes gives back the buffer of
\* bytes_into_cbor and fails with FailConvert on every Value that is not
\* major 2, the major-4 form included.
C16_TwoByteForms ==
    /\ (pc = "converted" /\ nat.ty = "bytes") =>
          /\ IsOk(conv)
          /\ conv.val.major = 2
          /\ conv.val.val = nat.val
          /\ Encoded(conv.val) = MinimalHeader(2, U64(Len(nat.val))) \o nat.val
    /\ (pc = "converted" /\ nat.ty = "vec_u8") =>
          /\ IsOk(conv)
          /\ conv.val.major = 4
          /\ Len(conv.val.val) = Len(nat.val)
          /\ \A i \in 1..Len(nat.val) :
                conv.val.val[i].major = 0 /\ conv.val.val[i].val = U64(nat.val[i])
    /\ (pc = "bytes" /\ nat.ty = "bytes") => back = [st |-> "Ok", val |-> nat.val]
    /\ (pc = "bytes" /\ conv.val.major # 2) => back.st = "FailConvert"

\* into_bytes was called on the major-4 form of a two-byte buffer, and failed.
C16_Witness ==
    /\ pc = "bytes"
    /\ nat = Native("vec_u8", <<97, 255>>)
    /\ Encoded(conv.val) = <<130, 24, 97, 24, 255>>
    /\ back.st = "FailConvert"

\* C17: encode returns Ok only when the writer accepted every byte handed to
\* it, and the count it returns is the number of bytes the writer accepted;
\* a writer that accepts fewer bytes makes encode fail with IOError, and a
\* reader that ends inside the item makes decode fail with IOError.
C17_ShortIO ==
    /\ (Encoded_ /\ val \in IOValues) =>
          /\ IsOk(encRes) => (wr.buf = Encoded(val) /\ encRes.n = Len(wr.buf))
          /\ Len(wr.buf) < Len(Encoded(val)) => encRes.st = "IOError"
    /\ (pc = "decoded" /\ src.kind = "cut") => decRes.st = "IOError"

\* The Identifier tag (tag 39) wrapping the ID of the type.
IdentifierOf(d) == Major6(InfoU8, Identifier(Major0(Tiny(d.id[8]), d.id)))

\* The variants of an enum that the item in name position names.
Named(d, items) ==
    {i \in 1..Len(d.variants) :
        Len(items) >= 2 /\ items[2].major = 3 /\ items[2].val = d.variants[i].name}

\* C18: a derived from_cbor returns FailConvert, and no value, when the
\* first item of the array is not the Identifier tag wrapping the type's ID,
\* when the item in name position names no variant of the enum, and when the
\* number of items after them is not the number of fields of the struct or
\* of the named variant.
C18_DeriveStrict ==
    (pc = "made" /\ msg.major = 4) =>
        LET items == msg.val
            IdOk == Len(items) >= 1 /\ items[1] = IdentifierOf(decl)
            Failed == made = [st |-> "FailConvert", val |-> <<>>]
        IN  /\ ~IdOk => Failed
            /\ (decl.kind = "struct" /\ Len(items) - 1 # Len(decl.fields)) => Failed
            /\ (decl.kind = "enum" /\ Named(decl, items) = {}) => Failed
            /\ decl.kind = "enum" =>
                  \A i \in Named(decl, items) :
                      Len(items) - 2 # Len(decl.variants[i].fields) => Failed

\* The enum was handed its identifier, the name of its one-field variant B
\* and two items, and failed.
C18_Witness ==
    /\ pc = "made"
    /\ decl.kind = "enum"
    /\ msg.val = <<IdentifierOf(decl), Major3(Tiny(1), <<66>>),
                   Major0(Tiny(7), U64(7)), Major0(Tiny(7), U64(7))>>
    /\ made = [st |-> "FailConvert", val |-> <<>>]

\* C19: to_values() of an entry is the sequence of the versions given to
\* the operations on it, the creating one first: one version for each
\* operation, in the order of the operations, an insert as Value::U with
\* its value and seqno and a delete as Value::D with its seqno.
C19_ToValuesIsHistory ==
    pc \in {"db", "merged"} =>
        (Entry_to_values(one) = ops1 /\ Entry_to_values(two) = ops2)

\* An entry created deleted, then upserted, then deleted again.
C19_Witness ==
    /\ pc = "db"
    /\ ops1 = <<ValueD(2), ValueU(300, 1), ValueD(1)>>
    /\ Entry_to_values(one) = ops1
    /\ Len(one.deltas) = 2

\* The versions replayed on a fresh entry: new or new_deleted for the
\* first, insert for an upsert and delete for a tombstone after it.
RECURSIVE Replay(_, _)
Replay(key, versions) ==
    IF Len(versions) = 1 THEN Create(key, versions[1])
    ELSE LET n == Len(versions)
             e == Replay(key, SubSeq(versions, 1, n - 1)) IN
         IF versions[n].t = "U" THEN Entry_insert(e, versions[n].value, versions[n].seqno)
         ELSE Entry_delete(e, versions[n].seqno)

Count(x, l) == Cardinality({i \in 1..Len(l) : l[i] = x})

\* C20: for two entries with the same key, one.merge(&two) is the entry
\* got by replaying on a fresh entry the versions of both in ascending
\* seqno order: its to_values() is in ascending seqno order, holds every
\* version of one and of two as often as the two histories do, and
\* replaying it gives the merged entry.
C20_MergeIsReplay ==
    (pc = "merged" /\ one.key = two.key) =>
        LET both == ops1 \o ops2
            vs == Entry_to_values(merged)
        IN  /\ Len(vs) = Len(both)
            /\ \A i \in 1..Len(both) : Count(both[i], vs) = Count(both[i], both)
            /\ \A i \in 1..(Len(vs) - 1) : vs[i].seqno <= vs[i + 1].seqno
            /\ merged = Replay(one.key, vs)

\* Two histories that interleave: one holds seqnos 2, 1 and two holds
\* seqnos 1, 2, and the merged entry holds 1, 1, 2, 2.
C20_Witness ==
    /\ pc = "merged"
    /\ ops1 = <<ValueU(200, 2), ValueD(1)>>
    /\ ops2 = <<ValueU(300, 1), ValueD(2)>>
    /\ Entry_to_values(merged) = <<ValueD(1), ValueU(300, 1), ValueU(200, 2), ValueD(2)>>

\* A version of that seqno is older than the bound of a cutoff: at or
\* before an included seqno, before an excluded one, always when unbounded.
Older(bound, seqno) ==
    CASE bound.t = "Included" -> seqno <= bound.val
      [] bound.t = "Excluded" -> seqno < bound.val
      [] OTHER -> TRUE

KeepNewer(bound, deltas) == SelectSeq(deltas, LAMBDA d : ~Older(bound, d.seqno))

\* C21: purge(Cutoff::Lsm(bound)) returns None when the latest version is
\* older than the cutoff, and otherwise the entry with its latest version
\* and exactly the deltas that are not older than the cutoff, for every
\* cutoff, 0 included.
C21_LsmPurge ==
    (pc = "purged" /\ cutoff.kind = "Lsm") =>
        IF Older(cutoff.bound, one.value.seqno) THEN purged = EntryNone
        ELSE purged = EntrySome([one EXCEPT !.deltas = KeepNewer(cutoff.bound, @)])

\* C22: purge(Cutoff::Tombstone(bound)) returns None exactly when the
\* latest version is a delete older than the cutoff, and every other entry
\* as it was: key, latest version and all deltas.
C22_TombstonePurge ==
    (pc = "purged" /\ cutoff.kind = "Tombstone") =>
        IF one.value.t = "D" /\ Older(cutoff.bound, one.value.seqno) THEN purged = EntryNone
        ELSE purged = EntrySome(one)

\* A delete at seqno 1 over a delta of seqno 2 was purged at Included(1);
\* an upsert with the same history was kept whole.
C22_Witness ==
    /\ pc = "purged"
    /\ cutoff = Tombstone(Included(1))
    /\ ops1 = <<ValueU(200, 2), ValueD(1)>>
    /\ purged = EntryNone

\* The seqnos given to the operations on one were strictly increasing.
Increasing(ops) == \A i \in 1..(Len(ops) - 1) : ops[i].seqno < ops[i + 1].seqno

\* The delta that stands for a superseded version.
DeltaOf(v) == IF v.t = "U" THEN DeltaU(v.value, v.seqno) ELSE DeltaD(v.seqno)

DeltasInOrder ==
    (pc = "entry" /\ Increasing(ops1)) =>
        /\ Len(one.deltas) = Len(ops1) - 1
        /\ \A i \in 1..Len(one.deltas) : one.deltas[i] = DeltaOf(ops1[Len(ops1) - i])
        /\ \A i \in 1..(Len(one.deltas) - 1) : one.deltas[i].seqno > one.deltas[i + 1].seqno
        /\ \A i \in 1..Len(one.deltas) : one.deltas[i].seqno < one.value.seqno

DeltasGrowInFront ==
    (pc = "entry" /\ pc' = "entry" /\ Increasing(ops1') /\ ops1' # ops1) =>
        /\ Len(one'.deltas) = Len(one.deltas) + 1
        /\ Tail(one'.deltas) = one.deltas

\* C29: after Entry::new or new_deleted and inserts and deletes with
\* strictly increasing seqnos, deltas holds one delta for each superseded
\* version, newest first, with strictly decreasing seqnos all below the
\* seqno of the current value; and every insert or delete puts one delta in
\* front of the others and leaves those as they were.
C29_DeltaChain == []DeltasInOrder /\ [][DeltasGrowInFront]_vars

\* An upsert at 0, a delete at 1 and an upsert at 2 left the deltas of the
\* delete and of the first upsert, in that order.
C29_Witness ==
    /\ pc = "entry"
    /\ ops1 = <<ValueU(200, 0), ValueD(1), ValueU(300, 2)>>
    /\ one.deltas = <<DeltaD(1), DeltaU(200, 0)>>

\* C24: an indefinite-length byte or text string with an item before the
\* Break that is not a definite-length chunk of the same major type (an
\* item of another major type, a chunk of the other string type, a nested
\* indefinite-length chunk) does not decode.
C24_ChunkShape ==
    (pc = "decoded" /\ src.kind = "mixed"
        /\ \E i \in 1..Len(src.items) : src.items[i] # "same") =>
        ~IsOk(decRes)

\* C25: an indefinite-length map in which a key item, key-capable or not,
\* is followed by a Break in value position, or in which a Break stands in
\* key position before a further item, does not decode: no map is returned
\* that leaves the dangling item out.
C25_DanglingItem ==
    (pc = "decoded" /\ src.kind = "keyed" /\ src.indef
        /\ (IsBreak(src.key) <=> src.items # <<>>)) =>
        ~IsOk(decRes)

\* The magnitude a decoded item of major 0, 1 or 6 carries.
MagnitudeOf(v) == IF v.major = 6 THEN v.val.val ELSE v.val

\* C26: a header with the indefinite info code (31) on major 0, 1 or 6 is
\* never decoded as the number 0: the additional value of info 31 is a
\* streaming sentinel, told apart from every magnitude.
C26_StreamSentinel ==
    (pc = "decoded" /\ src.kind = "header" /\ src.code = 31 /\ src.major \in {0, 1, 6}) =>
        ~(IsOk(decRes) /\ MagnitudeOf(decRes.val) = U64(0))

\* C27: encoding Cbor::Binary(b) to a Vec writes the bytes of b and nothing
\* else, and returns len(b), for every buffer b, the empty one and those
\* that are not a valid encoding included.
C27_BinaryVerbatim ==
    (pc = "encoded" /\ val.major = 8) =>
        /\ IsOk(encRes)
        /\ encRes.n = Len(val.val)
        /\ wr.buf = val.val

\* C28: every value x of a signed primitive type, the minimum of the type
\* included, converts into a Value and from_cbor of it returns x; and
\* from_cbor of a major-1 Value of magnitude m returns -(m + 1) exactly or a
\* conversion error, never a wrapped or overflowed result.
C28_SignedRoundTrip ==
    /\ (pc = "converted" /\ nat.ty \in SignedTypes) => IsOk(conv)
    /\ (pc = "restored" /\ nat.ty \in SignedTypes) => back = [st |-> "Ok", val |-> nat.val]
    /\ pc = "negative" =>
          \/ back.st = "FailConvert"
          \/ /\ conv.val.val # U64_MAX
             /\ back = [st |-> "Ok", val |-> I64Neg(WrappingInc(conv.val.val))]

\* What close_wait returns for the finished main loop s.
LoopOutcome(s) == IF s.st = "panicked" THEN ThreadFail ELSE [st |-> "Ok", val |-> s.out]

JoinedAfterExit ==
    own.st = "returned" =>
        /\ Finished(srv)
        /\ own.how = "close_wait" => own.ret = LoopOutcome(srv)

BlockedWhileServing ==
    (txs # {} /\ srv.st = "recv") => own.st # "returned"

ClosingCanEnd == pc = "thread" /\ own.st = "joining" /\ txs = {} /\ srv.heeds

\* C23: Thread::close_wait, and the drop of a Thread, returns only after the
\* main loop has finished, close_wait with what the loop returned; while a
\* Tx clone is alive and the loop waits on its Rx the call has not
\* returned; and once every Tx clone is dropped, a main loop that returns
\* on disconnect lets the call return.
C23_NoDangling ==
    /\ [](pc = "thread" => JoinedAfterExit /\ BlockedWhileServing)
    /\ ClosingCanEnd ~> own.st = "returned"

\* close_wait returned the result of a main loop that saw the disconnect
\* after the last Tx clone was dropped.
C23_Witness ==
    /\ pc = "thread"
    /\ own.st = "returned" /\ own.how = "close_wait"
    /\ srv.st = "exited" /\ srv.q = 0
    /\ own.ret = [st |-> "Ok", val |-> srv.out]
    /\ \E c \in Clients : cls[c].st = "gone"

InRequest(c) == pc = "thread" /\ cls[c].st \in {"sending", "waiting"}

RequestResult ==
    \A c \in DOMAIN cls :
        (cls[c].st = "done" /\ cls[c].call = "request") =>
            cls[c].res = IF rch[c].replied THEN [st |-> "Ok", val |-> Response(c)]
                         ELSE IPCFail

\* C30: a call of Tx::request returns when the main loop replies or lets
\* go of the request: with the response the loop sent for this request,
\* never one for another requester; with IPCFail when the loop returned or
\* dropped the reply sender without a reply, or when the Rx was gone at the
\* send.
C30_RequestReturns ==
    /\ []RequestResult
    /\ \A c \in Clients : InRequest(c) ~> cls[c].st = "done"

\* Of two requests, one got its own response and the other IPCFail.
C30_Witness ==
    /\ pc = "thread"
    /\ cls[1] = [st |-> "done", call |-> "request", res |-> [st |-> "Ok", val |-> Response(1)]]
    /\ cls[2] = [st |-> "done", call |-> "request", res |-> IPCFail]

=============================================================================
